---- MODULE Spec2Model ----
(***************************************************************************)
(* Model of the ironclaw orchestrator core:                                *)
(*   - the VM lifecycle (vm/mod.rs, vm/config.rs, vm/firewall.rs,          *)
(*     vm/firecracker.rs, vm/hyperv.rs) as the specification SpecVm;       *)
(*   - the MCP client over a stdio transport (mcp/client.rs,               *)
(*     mcp/transport.rs, mcp/protocol.rs) as the specification SpecMcp.    *)
(*   - the retry engine (mcp/retry.rs) as the specifications SpecRetry     *)
(*     (retry_with_backoff) and SpecDelay (calculate_delay);               *)
(*   - FirewallManagers held by a direct caller (vm/firewall.rs) as the    *)
(*     specification SpecFirewall;                                         *)
(*   - the checks made before a start (vm/config.rs, vm/rootfs.rs,         *)
(*     vm/signature.rs) as the specification SpecChecks.                   *)
(* Each public operation is one action; what the host, the hypervisor and  *)
(* the tool server do is drawn nondeterministically inside the action.     *)
(***************************************************************************)
EXTENDS Integers, Sequences, FiniteSets, TLC

VARIABLES
    host,        \* the machine: is iptables installed, are we root, is the jailer installed
    chains,      \* host packet filter: chain name -> [exists, rules]
    handles,     \* slot -> the VmHandle / HypervInstance the caller holds (live = FALSE: none)
    procs,       \* slot -> the hypervisor process (or WHPX partition) started for that slot
    lastSpawn,   \* what the most recent spawn call did and returned
    lastDestroy, \* what the most recent destroy/stop call did and returned
    state,       \* McpClient.state
    next_id,     \* McpClient.next_id
    server_capabilities, \* McpClient.server_capabilities
    tools,       \* McpClient.tools
    transport,   \* the StdioTransport the client owns, with the pipe to the server
    sent,        \* ids of the requests handed to Transport::send, in order
    last,        \* what the most recent McpClient call did and returned
    calls,       \* number of McpClient calls made so far
    retry,       \* one call of retry_with_backoff / calculate_delay: its config and progress
    managers,    \* slot -> a FirewallManager a caller holds directly (live = FALSE: none)
    jumps,       \* host packet filter: chain name -> interfaces whose INPUT/FORWARD rules jump to it
    lastFw,      \* what the most recent FirewallManager call did and returned
    lastSetup,   \* what the most recent RootfsConfig::setup did and returned
    lastVerify,  \* what the most recent verify_rootfs was given and returned
    lastValidate \* what the most recent VmConfig::validate was called on and returned

vmVars  == <<host, chains, handles, procs, lastSpawn, lastDestroy>>
clientVars == <<state, next_id, server_capabilities, tools, transport, sent, last, calls>>
mcpVars == <<state, next_id, server_capabilities, tools, transport, sent, last, calls, retry>>
fwVars  == <<managers, jumps, lastFw>>
imgVars == <<lastSetup, lastVerify, lastValidate>>
vars    == <<host, chains, handles, procs, lastSpawn, lastDestroy,
             state, next_id, server_capabilities, tools, transport, sent, last, calls, retry,
             managers, jumps, lastFw, lastSetup, lastVerify, lastValidate>>

----------------------------------------------------------------------------
(* Bounds of the model *)

MaxVms == 2

MaxCalls == 4

MaxInbox == 2

\* Largest max_attempts of the small retry configurations.
MaxAttempts == 3

\* max_attempts of the one long-running retry configuration.
ManyAttempts == 34

\* Largest attempt number calculate_delay is called with directly.
MaxDelayAttempt == 33

\* Durations are in milliseconds; every duration from DurationCap upwards is
\* represented by DurationCap (all of them exceed every max_delay of the model).
DurationCap == 1000000

Slots == 1..MaxVms

\* FirewallManagers a direct caller holds at the same time.
MaxManagers == 2

----------------------------------------------------------------------------
(* vm/config.rs *)

MinMemoryMb == 128

VmIds == { <<"t", "1">>, <<"t", "-", "1">>, <<"t", "_", "1">> }

DefaultConfig ==
    [ vm_id             |-> <<"t", "1">>,
      vcpu_count        |-> 1,
      memory_mb         |-> 512,
      kernel_path       |-> "vmlinux",
      rootfs_path       |-> "rootfs_signed",
      enable_networking |-> FALSE,
      seccomp_filter    |-> "None" ]

\* Path::exists for the host files a config can name: "vmlinux",
\* "rootfs_signed", "rootfs_tampered" (a signed image whose content was
\* modified after signing) and "missing".
PathExists(p) == p # "missing"

\* The configs the callers pass: the default for every VM id, and the
\* default with one field changed.
Configs ==
    { [DefaultConfig EXCEPT !.vm_id = id] : id \in VmIds }
    \cup { [DefaultConfig EXCEPT !.enable_networking = TRUE],
           [DefaultConfig EXCEPT !.vcpu_count = 0],
           [DefaultConfig EXCEPT !.memory_mb = 127],
           [DefaultConfig EXCEPT !.rootfs_path = "rootfs_tampered"],
           [DefaultConfig EXCEPT !.kernel_path = "missing"] }

\* VmConfig::validate: "Ok" or the error message's kind.
validate(cfg) ==
    IF cfg.vcpu_count = 0 THEN "Err_vcpu"
    ELSE IF cfg.memory_mb < MinMemoryMb THEN "Err_memory"
    ELSE IF cfg.enable_networking THEN "Err_networking"
    ELSE "Ok"

\* The configs validate() is called on directly: every combination of the
\* values a field takes in the model.
ValidatedConfigs ==
    { [ vm_id             |-> id,
        vcpu_count        |-> v,
        memory_mb         |-> m,
        kernel_path       |-> k,
        rootfs_path       |-> r,
        enable_networking |-> n,
        seccomp_filter    |-> "None" ] :
      id \in VmIds, v \in {0, 1, 2}, m \in {MinMemoryMb - 1, MinMemoryMb, 512},
      k \in {"vmlinux", "missing"}, r \in {"rootfs_signed", "missing"}, n \in BOOLEAN }

NoValidate == [ called |-> FALSE, config |-> DefaultConfig, result |-> "none" ]

----------------------------------------------------------------------------
(* vm/firewall.rs *)

\* char::is_alphanumeric on the characters VM ids are made of; it follows
\* Unicode, so a letter such as U+00E9 (e with acute accent) is alphanumeric.
Alphanumeric == {"t", "1", "D", "R", "O", "P", "a", "0", "U+00E9"}

ChainPrefix == <<"I", "R", "O", "N", "C", "L", "A", "W", "_">>

\* FirewallManager::new: every character that is not alphanumeric becomes '_'.
sanitize(id) == [i \in 1..Len(id) |-> IF id[i] \in Alphanumeric THEN id[i] ELSE "_"]

chain_name(id) == ChainPrefix \o sanitize(id)

\* The VM ids FirewallManager::new is called with by a direct caller; the
\* last one has 20 characters (a UUID has 36).
ManagerIds ==
    { <<"t", "-", "1">>, <<"D", "R", "O", "P">>, <<"U+00E9">>, [i \in 1..20 |-> "a"] }

ChainNames == { chain_name(id) : id \in VmIds \cup ManagerIds }

\* XT_EXTENSION_MAXNAMELEN - 1: the longest chain name iptables accepts.
MaxChainNameLen == 28

NoChain == [exists |-> FALSE, rules |-> <<>>]

\* A command of the iptables binary can take effect only when the binary is
\* there and the caller is root.
Privileged == host.iptables /\ host.root

check_iptables_installed == host.iptables

is_root == host.root

\* iptables -N <chain>: fails when the chain exists or its name is too long.
create_chain(c, name) ==
    IF Privileged /\ ~c[name].exists /\ Len(name) <= MaxChainNameLen
    THEN [ok |-> TRUE,  chains |-> [c EXCEPT ![name] = [exists |-> TRUE, rules |-> <<>>]]]
    ELSE [ok |-> FALSE, chains |-> c]

\* iptables -A <chain> -j DROP
add_drop_rules(c, name) ==
    IF Privileged /\ c[name].exists
    THEN [ok |-> TRUE,  chains |-> [c EXCEPT ![name].rules = Append(@, "DROP")]]
    ELSE [ok |-> FALSE, chains |-> c]

\* iptables -F <chain>; the exit status is ignored by the callers.
flush_chain(c, name) ==
    IF Privileged /\ c[name].exists THEN [c EXCEPT ![name].rules = <<>>] ELSE c

\* iptables -X <chain>: deletes an existing, empty chain that no rule of
\* another chain jumps to; status ignored.
delete_chain(c, name) ==
    IF Privileged /\ c[name].exists /\ c[name].rules = <<>> /\ jumps[name] = {}
    THEN [c EXCEPT ![name] = NoChain] ELSE c

\* FirewallManager::configure_isolation
configure_isolation(c, name) ==
    IF ~check_iptables_installed THEN [ok |-> FALSE, chains |-> c]
    ELSE IF ~is_root THEN [ok |-> FALSE, chains |-> c]
    ELSE LET cr == create_chain(c, name) IN
         IF ~cr.ok THEN cr
         ELSE add_drop_rules(cr.chains, name)

\* The text `iptables -L <chain>` prints: the header naming the chain, then
\* one line per rule, here as a sequence of characters.
RECURSIVE RulesText(_)
RulesText(rules) ==
    IF rules = <<>> THEN <<>>
    ELSE <<"D", "R", "O", "P">> \o RulesText(Tail(rules))

ListingText(c, name) == name \o RulesText(c[name].rules)

\* str::contains
Contains(text, pat) ==
    \E i \in 1..(Len(text) - Len(pat) + 1) :
        \A j \in 1..Len(pat) : text[i + j - 1] = pat[j]

\* FirewallManager::verify_isolation: the Ok(bool) it returns.
verify_isolation(c, name) ==
    IF ~host.iptables THEN FALSE
    ELSE IF ~(host.root /\ c[name].exists) THEN FALSE
    ELSE Contains(ListingText(c, name), <<"D", "R", "O", "P">>)

\* FirewallManager::cleanup with the `iptables -X` left out.
cleanup_FlushOnly(c, name) == flush_chain(c, name)

\* FirewallManager::cleanup (the synchronous path): the two loops remove the
\* rules `-j <chain>` from INPUT and FORWARD for as long as `iptables -D`
\* finds one; no call of the program inserts a rule of that form (the rules
\* of block_interface carry `-i <interface>` and are not matched), so the
\* loops leave the host as it is. Then flush and delete, every exit status
\* ignored.
cleanup(c, name) == delete_chain(flush_chain(c, name), name)

\* impl Drop for FirewallManager, with the cleanup left out.
FirewallManagerDrop_NoCleanup(c, name) == c

\* impl Drop for FirewallManager
FirewallManagerDrop(c, name) == cleanup(c, name)

----------------------------------------------------------------------------
(* vm/mod.rs, vm/firecracker.rs, vm/hyperv.rs: the state *)

NoHandle ==
    [ live |-> FALSE, id |-> <<>>, process |-> "None",
      firewall_manager |-> "None", chain |-> <<>> ]

\* A hypervisor process (or WHPX partition): was the config it was started
\* from one that validate() accepts, and does it have a network device.
NoProc == [ running |-> FALSE, config_valid |-> TRUE, netdev |-> FALSE ]

NoSpawn ==
    [ fn |-> "none", config |-> DefaultConfig, slot |-> 0, result |-> "none",
      failed_at |-> "none", steps |-> <<>>, configured |-> FALSE, verified |-> FALSE ]

NoDestroy == [ fn |-> "none", slot |-> 0, result |-> "none", steps |-> <<>> ]

\* A slot the caller can put a new VM into, and the one the next spawn uses.
FreeSlot(s) == ~handles[s].live /\ ~procs[s].running

NextSlot(s) == FreeSlot(s) /\ \A t \in Slots : FreeSlot(t) => s <= t

\* Outcomes of code outside this model's reach: the jailer launching the
\* hypervisor binary, signals to a process, calls into the WHPX library.
StartOutcomes == {"Ok", "Err"}

SignalOutcomes == {"Ok", "Err"}

HypervFailures ==
    {"none", "create", "setup_processors", "attach_disk", "attach_network_device", "start"}

\* spawn_vm_with_config / spawn_vm_jailed, lines 118-126 and 337-345: the
\* Basic seccomp filter is filled in when the config has none.
config_with_seccomp(cfg) ==
    IF cfg.seccomp_filter = "None" THEN [cfg EXCEPT !.seccomp_filter = "Basic"] ELSE cfg

\* start_firecracker: the JailerConfig takes the id, the vCPU count and the
\* memory size of the VmConfig; the process it starts has no network device.
start_firecracker(cfg, o) ==
    [ ok |-> (o = "Ok"),
      proc |-> [ running |-> TRUE, config_valid |-> (validate(cfg) = "Ok"), netdev |-> FALSE ] ]

\* The match on configure_isolation's result (mod.rs 132-147, 351-366) with
\* an Err arm that gives up instead of going on.
continue_after_configure_OnlyOnOk(conf_ok) == conf_ok

\* The match on configure_isolation's result (mod.rs 132-147, 351-366): the
\* Ok arm logs, the Err arm warns ("Continue anyway"); neither returns.
continue_after_configure(conf_ok) == TRUE

\* The part spawn_vm_with_config and spawn_vm_jailed share: firewall setup,
\* verification, then the hypervisor start whose outcome is `o`; a failed
\* start returns the error, and the local FirewallManager is dropped on the
\* way out.
SpawnCommon(fn, startStep, s, cfg, o) ==
    LET cfgS == config_with_seccomp(cfg)
        name == chain_name(cfgS.vm_id)
        conf == configure_isolation(chains, name)
        go   == continue_after_configure(conf.ok)
        ver  == verify_isolation(conf.chains, name)
        st   == start_firecracker(cfgS, o)
        steps == IF go THEN <<"seccomp", "configure_isolation", "verify_isolation", startStep>>
                 ELSE <<"seccomp", "configure_isolation">>
    IN  IF go /\ st.ok
        THEN /\ chains' = conf.chains
             /\ handles' = [handles EXCEPT ![s] =
                    [ live |-> TRUE, id |-> cfg.vm_id, process |-> "Some",
                      firewall_manager |-> "Some", chain |-> name ]]
             /\ procs' = [procs EXCEPT ![s] = st.proc]
             /\ lastSpawn' =
                    [ fn |-> fn, config |-> cfg, slot |-> s, result |-> "Ok",
                      failed_at |-> "none", steps |-> steps,
                      configured |-> conf.ok, verified |-> ver ]
        ELSE /\ chains' = FirewallManagerDrop(conf.chains, name)
             /\ UNCHANGED <<handles, procs>>
             /\ lastSpawn' =
                    [ fn |-> fn, config |-> cfg, slot |-> s, result |-> "Err",
                      failed_at |-> IF go THEN startStep ELSE "configure_isolation",
                      steps |-> Append(steps, "drop_firewall_manager"),
                      configured |-> conf.ok, verified |-> go /\ ver ]

\* pub async fn spawn_vm_with_config(task_id, config); task_id is the
\* config's vm_id, as spawn_vm passes it.
spawn_vm_with_config ==
    \E s \in Slots, cfg \in Configs, o \in StartOutcomes :
        /\ NextSlot(s)
        /\ SpawnCommon("spawn_vm_with_config", "start_firecracker", s, cfg, o)
        /\ lastDestroy' = NoDestroy
        /\ UNCHANGED host
        /\ UNCHANGED <<mcpVars, fwVars, imgVars>>

\* pub async fn spawn_vm_jailed(task_id, vm_config, jailer_config)
spawn_vm_jailed ==
    \E s \in Slots, cfg \in Configs, o \in StartOutcomes :
        /\ NextSlot(s)
        /\ IF ~host.jailer
           THEN /\ lastSpawn' =
                    [ fn |-> "spawn_vm_jailed", config |-> cfg, slot |-> s, result |-> "Err",
                      failed_at |-> "verify_jailer_installed",
                      steps |-> <<"verify_jailer_installed">>,
                      configured |-> FALSE, verified |-> FALSE ]
                /\ UNCHANGED <<chains, handles, procs>>
           ELSE SpawnCommon("spawn_vm_jailed", "start_jailed_firecracker", s, cfg, o)
        /\ lastDestroy' = NoDestroy
        /\ UNCHANGED host
        /\ UNCHANGED <<mcpVars, fwVars, imgVars>>

\* stop_firecracker: SIGTERM (its error is returned), then SIGKILL when the
\* process is still running.  `term`, `alive` and `kill` are what the signals
\* and the liveness probe report.
stop_firecracker(term, alive, kill) ==
    IF term = "Err" THEN [result |-> "Err", steps |-> <<"terminate">>, running |-> TRUE]
    ELSE IF ~alive THEN [result |-> "Ok", steps |-> <<"terminate", "is_running">>, running |-> FALSE]
    ELSE IF kill = "Err"
         THEN [result |-> "Err", steps |-> <<"terminate", "is_running", "force_kill">>,
               running |-> TRUE]
         ELSE [result |-> "Ok", steps |-> <<"terminate", "is_running", "force_kill">>,
               running |-> FALSE]

\* destroy_vm, lines 210-212, with the `if let Some(proc)` left out: the
\* process is stopped whether or not the slot still holds one.
stop_taken_process_Always(process, running, term, alive, kill) ==
    stop_firecracker(term, alive, kill)

\* destroy_vm, lines 210-212: the process is taken out of the handle's slot
\* and stopped; an empty slot is passed over.
stop_taken_process(process, running, term, alive, kill) ==
    IF process = "Some"
    THEN stop_firecracker(term, alive, kill)
    ELSE [result |-> "Ok", steps |-> <<>>, running |-> running]

\* pub async fn destroy_vm(handle): the handle is consumed; its
\* FirewallManager is dropped when the function returns, with Ok or Err.
destroy_vm ==
    \E s \in Slots, term \in SignalOutcomes, alive \in BOOLEAN, kill \in SignalOutcomes :
        /\ handles[s].live
        /\ handles[s].firewall_manager = "Some"
        /\ LET st == stop_taken_process(handles[s].process, procs[s].running, term, alive, kill)
           IN  /\ procs' = [procs EXCEPT ![s] = IF st.running THEN @ ELSE NoProc]
               /\ lastDestroy' =
                    [ fn |-> "destroy_vm", slot |-> s, result |-> st.result,
                      steps |-> Append(st.steps, "drop_firewall_manager") ]
        /\ chains' = FirewallManagerDrop(chains, handles[s].chain)
        /\ handles' = [handles EXCEPT ![s] = NoHandle]
        /\ lastSpawn' = NoSpawn
        /\ UNCHANGED host
        /\ UNCHANGED <<mcpVars, fwVars, imgVars>>

\* destroy_vm_jailed, lines 447-464: the JailerProcess built from what was
\* taken out of the handle's slot (`pid` is the pid of the process held
\* there; an empty slot gives pid 0 and no child), and the call of
\* stop_jailed_firecracker on it, which reports `stop`.
stop_taken_jailed_process(process, pid, stop) ==
    [ called |-> TRUE,
      jailer_process |-> [ pid |-> IF process = "Some" THEN pid ELSE 0,
                           child_process |-> process ],
      result |-> stop ]

\* pub async fn destroy_vm_jailed(handle, jailer_config): the process is
\* taken out of the handle and handed to stop_jailed_firecracker, whose error
\* is returned; the handle, with its FirewallManager, is dropped at the return.
destroy_vm_jailed ==
    \E s \in Slots, stop \in SignalOutcomes :
        /\ handles[s].live
        /\ handles[s].firewall_manager = "Some"
        /\ LET st == stop_taken_jailed_process(handles[s].process, s, stop)
           IN  /\ procs' = [procs EXCEPT ![s] = IF st.result = "Err" THEN @ ELSE NoProc]
               /\ lastDestroy' =
                    [ fn |-> "destroy_vm_jailed", slot |-> s, result |-> st.result,
                      steps |-> IF st.called
                                THEN <<"stop_jailed_firecracker", "drop_firewall_manager">>
                                ELSE <<"drop_firewall_manager">> ]
        /\ chains' = FirewallManagerDrop(chains, handles[s].chain)
        /\ handles' = [handles EXCEPT ![s] = NoHandle]
        /\ lastSpawn' = NoSpawn
        /\ UNCHANGED host
        /\ UNCHANGED <<mcpVars, fwVars, imgVars>>

\* The steps start_hyperv performs up to and including the one that fails.
HypervSteps(cfg, f) ==
    LET all == IF cfg.enable_networking
               THEN <<"create", "setup_processors", "attach_disk", "attach_network_device", "start">>
               ELSE <<"create", "setup_processors", "attach_disk", "start">>
        upto == IF f = "none" THEN Len(all)
                ELSE CHOOSE i \in 1..Len(all) : all[i] = f
    IN  SubSeq(all, 1, upto)

\* HypervHypervisor::spawn -> start_hyperv (the Windows build): `f` is the
\* WHPX call that fails, if any.
start_hyperv ==
    \E s \in Slots, cfg \in Configs, f \in HypervFailures :
        /\ NextSlot(s)
        /\ f = "attach_network_device" => cfg.enable_networking
        /\ LET missing == IF ~PathExists(cfg.kernel_path) THEN "kernel_exists"
                          ELSE IF ~PathExists(cfg.rootfs_path) THEN "rootfs_exists"
                          ELSE "none"
           IN  IF missing # "none"
               THEN /\ lastSpawn' =
                        [ fn |-> "start_hyperv", config |-> cfg, slot |-> s, result |-> "Err",
                          failed_at |-> missing, steps |-> <<missing>>,
                          configured |-> FALSE, verified |-> FALSE ]
                    /\ UNCHANGED <<handles, procs>>
               ELSE IF f # "none"
               THEN /\ lastSpawn' =
                        [ fn |-> "start_hyperv", config |-> cfg, slot |-> s, result |-> "Err",
                          failed_at |-> f, steps |-> HypervSteps(cfg, f),
                          configured |-> FALSE, verified |-> FALSE ]
                    /\ UNCHANGED <<handles, procs>>
               ELSE /\ lastSpawn' =
                        [ fn |-> "start_hyperv", config |-> cfg, slot |-> s, result |-> "Ok",
                          failed_at |-> "none", steps |-> HypervSteps(cfg, f),
                          configured |-> FALSE, verified |-> FALSE ]
                    /\ handles' = [handles EXCEPT ![s] =
                        [ live |-> TRUE, id |-> cfg.vm_id, process |-> "Some",
                          firewall_manager |-> "None", chain |-> <<>> ]]
                    /\ procs' = [procs EXCEPT ![s] =
                        [ running |-> TRUE, config_valid |-> (validate(cfg) = "Ok"),
                          netdev |-> cfg.enable_networking ]]
        /\ lastDestroy' = NoDestroy
        /\ UNCHANGED <<host, chains>>
        /\ UNCHANGED <<mcpVars, fwVars, imgVars>>

\* HypervInstance::stop(&mut self): the partition is taken out of its slot
\* and terminated; a second stop finds the slot empty.
hyperv_stop ==
    \E s \in Slots, term \in SignalOutcomes :
        /\ handles[s].live
        /\ handles[s].firewall_manager = "None"
        /\ IF handles[s].process = "Some"
           THEN /\ handles' = [handles EXCEPT ![s].process = "None"]
                /\ procs' = [procs EXCEPT ![s] = IF term = "Err" THEN @ ELSE NoProc]
                /\ lastDestroy' =
                     [ fn |-> "stop", slot |-> s, result |-> term, steps |-> <<"terminate">> ]
           ELSE /\ UNCHANGED <<handles, procs>>
                /\ lastDestroy' =
                     [ fn |-> "stop", slot |-> s, result |-> "Ok", steps |-> <<>> ]
        /\ lastSpawn' = NoSpawn
        /\ UNCHANGED <<host, chains>>
        /\ UNCHANGED <<mcpVars, fwVars, imgVars>>

----------------------------------------------------------------------------
(* mcp/protocol.rs: messages *)

NoResult ==
    [ present |-> FALSE, serverInfo |-> "absent", protocolVersion |-> "absent",
      capabilities |-> "absent", tools |-> "absent" ]

NoError == [ present |-> FALSE, code |-> 0, message |-> "" ]

\* The JSON values a server puts in `result` (the fields the client looks at).
InitResult ==
    [ present |-> TRUE, serverInfo |-> "valid", protocolVersion |-> "2024-11-05",
      capabilities |-> "{}", tools |-> "absent" ]

NoVersionResult ==
    [ present |-> TRUE, serverInfo |-> "valid", protocolVersion |-> "absent",
      capabilities |-> "{}", tools |-> "absent" ]

ToolsResult ==
    [ present |-> TRUE, serverInfo |-> "absent", protocolVersion |-> "absent",
      capabilities |-> "absent", tools |-> "[tool1]" ]

EmptyResult ==
    [ present |-> TRUE, serverInfo |-> "absent", protocolVersion |-> "absent",
      capabilities |-> "absent", tools |-> "absent" ]

Results ==
    { InitResult, NoVersionResult, ToolsResult, EmptyResult,
      [ToolsResult EXCEPT !.tools = "[]"] }

InitializationError == [ present |-> TRUE, code |-> -32001, message |-> "fail" ]

\* What a server answers with: a result, an error, both, or neither.
Payloads ==
    { [result |-> r, error |-> NoError] : r \in Results }
    \cup { [result |-> NoResult, error |-> InitializationError],
           [result |-> EmptyResult, error |-> InitializationError],
           [result |-> NoResult, error |-> NoError] }

\* McpResponse as it travels on the server's stdout; a "noise" line is one
\* that does not deserialize as a McpResponse (a log line, a notification).
Response(id, p) == [ kind |-> "response", id |-> id, result |-> p.result, error |-> p.error ]

Noise == [ kind |-> "noise", id |-> 0, result |-> NoResult, error |-> NoError ]

\* is_success looking at the result only.
is_success_IgnoresError(r) == r.result.present

\* McpResponse::is_success
is_success(r) == r.result.present /\ ~r.error.present

\* McpError::internal_error("Invalid response: both result and error present")
InvalidResponseError == [ present |-> TRUE, code |-> -32603, message |-> "Invalid response" ]

\* McpResponse::into_result: the match on (result, error); the last arm
\* takes both-present and both-absent.
into_result(r) ==
    IF r.result.present /\ ~r.error.present
    THEN [ok |-> TRUE, value |-> r.result, error |-> NoError]
    ELSE IF ~r.result.present /\ r.error.present
    THEN [ok |-> FALSE, value |-> NoResult, error |-> r.error]
    ELSE [ok |-> FALSE, value |-> NoResult, error |-> InvalidResponseError]

\* serde_json's Index: value["key"] of a key that is absent is Null.
JsonIndex(v) == IF v = "absent" THEN "null" ELSE v

\* serde_json::from_value::<Vec<Tool>>(result["tools"])
ParseTools(v) ==
    IF v = "[]" THEN [ok |-> TRUE, list |-> <<>>]
    ELSE IF v = "[tool1]" THEN [ok |-> TRUE, list |-> <<"tool1">>]
    ELSE [ok |-> FALSE, list |-> <<>>]

----------------------------------------------------------------------------
(* mcp/transport.rs: StdioTransport and the server behind its pipes *)

\* StdioTransport::spawn.  Besides the fields of the struct: is the server's
\* end of the pipes open, the lines waiting on its stdout, has a kill signal
\* been sent to the child, has the child been waited for, has the transport
\* been dropped, and the most recent of kill(), wait() and the drop (what it
\* returned and whether it sent a kill signal to the child).
NewTransport ==
    [ connected |-> TRUE, child |-> "Some", server_open |-> TRUE, inbox |-> <<>>,
      kill_issued |-> FALSE, reaped |-> FALSE, dropped |-> FALSE,
      op |-> [ fn |-> "none", result |-> "none", signalled |-> FALSE ] ]

\* Transport::is_connected
is_connected(tr) == tr.connected /\ tr.child = "Some"

\* What the server does with a request written to its stdin.
ServerEvents ==
    { [kind |-> k, payload |-> p] : k \in {"reply", "noise_reply", "late"}, p \in Payloads }
    \cup { [kind |-> "close", payload |-> [result |-> NoResult, error |-> NoError]] }

\* Transport::send: refuses when not connected; the write fails when the
\* server has closed its end of the pipe.
send(tr, id) ==
    IF ~tr.connected THEN [ok |-> FALSE, wrote |-> FALSE]
    ELSE IF ~tr.server_open THEN [ok |-> FALSE, wrote |-> TRUE]
    ELSE [ok |-> TRUE, wrote |-> TRUE]

\* The server's stdout after it has seen request `id` and behaved as `ev`.
ServerReact(tr, id, ev) ==
    IF ev.kind = "close" THEN [tr EXCEPT !.server_open = FALSE]
    ELSE IF ev.kind = "noise_reply"
    THEN [tr EXCEPT !.inbox = @ \o <<Noise, Response(id, ev.payload)>>]
    ELSE [tr EXCEPT !.inbox = Append(@, Response(id, ev.payload))]

\* A recv that reports EOF and leaves `connected` set.
recv_EofStaysConnected(tr) ==
    IF ~tr.connected
    THEN [ok |-> FALSE, err |-> "not_connected", read |-> FALSE, resp |-> Noise, tr |-> tr]
    ELSE IF tr.inbox = <<>>
    THEN [ok |-> FALSE, err |-> "eof", read |-> TRUE, resp |-> Noise, tr |-> tr]
    ELSE IF Head(tr.inbox).kind = "noise"
    THEN [ok |-> FALSE, err |-> "deserialize", read |-> TRUE, resp |-> Noise,
          tr |-> [tr EXCEPT !.inbox = Tail(@)]]
    ELSE [ok |-> TRUE, err |-> "none", read |-> TRUE, resp |-> Head(tr.inbox),
          tr |-> [tr EXCEPT !.inbox = Tail(@)]]

\* Transport::recv: one line is read; no line and a closed pipe is EOF,
\* which disconnects; a line that does not parse is an error and is consumed.
recv(tr) ==
    IF ~tr.connected
    THEN [ok |-> FALSE, err |-> "not_connected", read |-> FALSE, resp |-> Noise, tr |-> tr]
    ELSE IF tr.inbox = <<>>
    THEN [ok |-> FALSE, err |-> "eof", read |-> TRUE, resp |-> Noise,
          tr |-> [tr EXCEPT !.connected = FALSE]]
    ELSE IF Head(tr.inbox).kind = "noise"
    THEN [ok |-> FALSE, err |-> "deserialize", read |-> TRUE, resp |-> Noise,
          tr |-> [tr EXCEPT !.inbox = Tail(@)]]
    ELSE [ok |-> TRUE, err |-> "none", read |-> TRUE, resp |-> Head(tr.inbox),
          tr |-> [tr EXCEPT !.inbox = Tail(@)]]

\* The send/recv pair every client call performs for request `id`, against
\* a server that behaves as `ev`; "late" is a reply that arrives after the
\* caller has abandoned the call (its deadline dropped the pending recv).
Exchange(tr, id, ev) ==
    LET sd == send(tr, id) IN
    IF ~sd.ok
    THEN [ outcome |-> "send_err", err |-> IF sd.wrote THEN "write" ELSE "not_connected",
           sends |-> 1, recvs |-> 0, wrote |-> sd.wrote, read |-> FALSE,
           resp |-> Noise, tr |-> tr ]
    ELSE LET tr1 == ServerReact(tr, id, ev) IN
         IF ev.kind = "late"
         THEN [ outcome |-> "abandoned", err |-> "abandoned",
                sends |-> 1, recvs |-> 1, wrote |-> TRUE, read |-> FALSE,
                resp |-> Noise, tr |-> tr1 ]
         ELSE LET rc == recv(tr1) IN
              [ outcome |-> IF rc.ok THEN "response" ELSE "recv_err", err |-> rc.err,
                sends |-> 1, recvs |-> 1, wrote |-> TRUE, read |-> rc.read,
                resp |-> rc.resp, tr |-> rc.tr ]

\* The server behaviours that can follow a send on `tr`: one placeholder when
\* the send itself fails, and never more unread lines than MaxInbox.
EventsFor(tr) ==
    IF ~send(tr, 0).ok THEN { [kind |-> "close", payload |-> [result |-> NoResult, error |-> NoError]] }
    ELSE { ev \in ServerEvents :
             Len(tr.inbox) + (IF ev.kind \in {"noise_reply", "late"} THEN 1 ELSE 0) <= MaxInbox }

----------------------------------------------------------------------------
(* mcp/client.rs: McpClient<StdioTransport> *)

ClientStates == {"Created", "Initializing", "Ready", "Disconnected"}

NoCapabilities ==
    [ present |-> FALSE, protocol_version |-> "", capabilities |-> "", server_info |-> "" ]

\* Capabilities stored without the protocol version the server reported.
ParseCapabilities_NoVersion(result) ==
    [ present |-> TRUE, protocol_version |-> "",
      capabilities |-> JsonIndex(result.capabilities),
      server_info |-> result.serverInfo ]

\* initialize, lines 227-234: the ServerCapabilities built from the result.
ParseCapabilities(result) ==
    [ present |-> TRUE, protocol_version |-> result.protocolVersion,
      capabilities |-> JsonIndex(result.capabilities),
      server_info |-> result.serverInfo ]

NoCall ==
    [ op |-> "none", pre |-> "Created", result |-> "none", err |-> "none",
      req_id |-> 0, resp_id |-> 0, sends |-> 0, recvs |-> 0,
      wrote |-> FALSE, read |-> FALSE, resp |-> Noise ]

\* A call that returned before it touched the transport.
Rejected(op, why) ==
    [ op |-> op, pre |-> state, result |-> "Err", err |-> why,
      req_id |-> 0, resp_id |-> 0, sends |-> 0, recvs |-> 0,
      wrote |-> FALSE, read |-> FALSE, resp |-> Noise ]

\* A call that sent request `id` and went through the exchange `x`.
Performed(op, id, x, result, err, resp_id) ==
    [ op |-> op, pre |-> state, result |-> result, err |-> err,
      req_id |-> id, resp_id |-> resp_id, sends |-> x.sends, recvs |-> x.recvs,
      wrote |-> x.wrote, read |-> x.read, resp |-> x.resp ]

\* An id allocation that does not advance the counter.
fetch_add_NoAdd(id) == id

\* self.next_id.fetch_add(1, Ordering::SeqCst) on an AtomicU64: the value
\* after the add (the wrap at 2^64 is out of reach of MaxCalls calls).
fetch_add(id) == id + 1

\* ensure_ready letting Initializing through.
ensure_ready_InitializingOk(st) ==
    IF st = "Created" THEN "Err_not_initialized"
    ELSE IF st = "Initializing" THEN "Ok"
    ELSE IF st = "Ready" THEN "Ok"
    ELSE "Err_disconnected"

\* McpClient::ensure_ready
ensure_ready(st) ==
    IF st = "Created" THEN "Err_not_initialized"
    ELSE IF st = "Initializing" THEN "Err_initializing"
    ELSE IF st = "Ready" THEN "Ok"
    ELSE "Err_disconnected"

\* The state check of initialize, also passing in Initializing.
can_initialize_AlsoInitializing(st) == st \in {"Created", "Initializing"}

\* initialize, line 158: the state it may be called in.
can_initialize(st) == st = "Created"

\* How a call ends when the exchange did not deliver a response.
FailureOf(x) == IF x.outcome = "abandoned" THEN "Abandoned" ELSE "Err"

\* The prologue of initialize with the state set before the transport is
\* looked at.
initialize_checks_MarksFirst(st, tr) ==
    IF ~can_initialize(st) THEN [err |-> "invalid_state", state |-> st]
    ELSE IF ~is_connected(tr) THEN [err |-> "transport_disconnected", state |-> "Initializing"]
    ELSE [err |-> "none", state |-> "Initializing"]

\* initialize, lines 158-169: the two checks, and the state they leave.
initialize_checks(st, tr) ==
    IF ~can_initialize(st) THEN [err |-> "invalid_state", state |-> st]
    ELSE IF ~is_connected(tr) THEN [err |-> "transport_disconnected", state |-> st]
    ELSE [err |-> "none", state |-> "Initializing"]

\* The handling of the exchange with the capabilities stored before the
\* protocol version is looked for.
initialize_response_StoresFirst(caps, x) ==
    LET r == x.resp IN
    IF x.outcome # "response"
    THEN [ state |-> "Initializing", server_capabilities |-> caps,
           result |-> FailureOf(x), err |-> x.err, resp_id |-> 0 ]
    ELSE IF ~is_success(r)
    THEN [ state |-> "Initializing", server_capabilities |-> caps, result |-> "Err",
           err |-> IF r.error.present THEN "error_response" ELSE "unknown_error",
           resp_id |-> r.id ]
    ELSE IF r.result.serverInfo # "valid"
    THEN [ state |-> "Initializing", server_capabilities |-> caps, result |-> "Err",
           err |-> "parse_server_info", resp_id |-> r.id ]
    ELSE IF r.result.protocolVersion = "absent"
    THEN [ state |-> "Initializing", server_capabilities |-> ParseCapabilities(r.result),
           result |-> "Err", err |-> "missing_protocol_version", resp_id |-> r.id ]
    ELSE [ state |-> "Ready", server_capabilities |-> ParseCapabilities(r.result),
           result |-> "Ok", err |-> "none", resp_id |-> r.id ]

\* initialize, lines 189-244: what the exchange `x` leaves in the client
\* whose capabilities were `caps`, and what the call returns.
initialize_response(caps, x) ==
    LET r == x.resp IN
    IF x.outcome # "response"
    THEN [ state |-> "Initializing", server_capabilities |-> caps,
           result |-> FailureOf(x), err |-> x.err, resp_id |-> 0 ]
    ELSE IF ~is_success(r)
    THEN [ state |-> "Initializing", server_capabilities |-> caps, result |-> "Err",
           err |-> IF r.error.present THEN "error_response" ELSE "unknown_error",
           resp_id |-> r.id ]
    ELSE IF r.result.serverInfo # "valid"
    THEN [ state |-> "Initializing", server_capabilities |-> caps, result |-> "Err",
           err |-> "parse_server_info", resp_id |-> r.id ]
    ELSE IF r.result.protocolVersion = "absent"
    THEN [ state |-> "Initializing", server_capabilities |-> caps, result |-> "Err",
           err |-> "missing_protocol_version", resp_id |-> r.id ]
    ELSE [ state |-> "Ready", server_capabilities |-> ParseCapabilities(r.result),
           result |-> "Ok", err |-> "none", resp_id |-> r.id ]

\* pub async fn initialize(&mut self)
initialize ==
    /\ ~transport.dropped
    /\ calls < MaxCalls
    /\ calls' = calls + 1
    /\ LET chk == initialize_checks(state, transport) IN
       IF chk.err # "none"
       THEN /\ last' = Rejected("initialize", chk.err)
            /\ state' = chk.state
            /\ UNCHANGED <<next_id, server_capabilities, tools, transport, sent>>
       ELSE \E ev \in EventsFor(transport) :
            LET id == next_id
                x  == Exchange(transport, id, ev)
                o  == initialize_response(server_capabilities, x)
            IN  /\ next_id' = fetch_add(next_id)
                /\ sent' = Append(sent, id)
                /\ transport' = x.tr
                /\ tools' = tools
                /\ state' = o.state
                /\ server_capabilities' = o.server_capabilities
                /\ last' = Performed("initialize", id, x, o.result, o.err, o.resp_id)
    /\ UNCHANGED <<vmVars, retry, fwVars, imgVars>>

\* The handling of the exchange with the cache emptied by a failure.
list_tools_response_ClearsOnFailure(cache, x) ==
    LET r  == x.resp
        pt == ParseTools(r.result.tools)
    IN
    IF x.outcome # "response"
    THEN [ tools |-> <<>>, result |-> FailureOf(x), err |-> x.err, resp_id |-> 0 ]
    ELSE IF ~is_success(r)
    THEN [ tools |-> <<>>, result |-> "Err",
           err |-> IF r.error.present THEN "error_response" ELSE "unknown_error",
           resp_id |-> r.id ]
    ELSE IF ~pt.ok
    THEN [ tools |-> <<>>, result |-> "Err", err |-> "parse_tools", resp_id |-> r.id ]
    ELSE [ tools |-> pt.list, result |-> "Ok", err |-> "none", resp_id |-> r.id ]

\* list_tools, lines 273-311: what the exchange `x` leaves in the cache that
\* held `cache`, and what the call returns.
list_tools_response(cache, x) ==
    LET r  == x.resp
        pt == ParseTools(r.result.tools)
    IN
    IF x.outcome # "response"
    THEN [ tools |-> cache, result |-> FailureOf(x), err |-> x.err, resp_id |-> 0 ]
    ELSE IF ~is_success(r)
    THEN [ tools |-> cache, result |-> "Err",
           err |-> IF r.error.present THEN "error_response" ELSE "unknown_error",
           resp_id |-> r.id ]
    ELSE IF ~pt.ok
    THEN [ tools |-> cache, result |-> "Err", err |-> "parse_tools", resp_id |-> r.id ]
    ELSE [ tools |-> pt.list, result |-> "Ok", err |-> "none", resp_id |-> r.id ]

\* pub async fn list_tools(&mut self)
list_tools ==
    /\ ~transport.dropped
    /\ calls < MaxCalls
    /\ calls' = calls + 1
    /\ IF ensure_ready(state) # "Ok"
       THEN /\ last' = Rejected("list_tools", ensure_ready(state))
            /\ UNCHANGED <<state, next_id, server_capabilities, tools, transport, sent>>
       ELSE \E ev \in EventsFor(transport) :
            LET id == next_id
                x  == Exchange(transport, id, ev)
                o  == list_tools_response(tools, x)
            IN  /\ next_id' = fetch_add(next_id)
                /\ sent' = Append(sent, id)
                /\ transport' = x.tr
                /\ UNCHANGED <<state, server_capabilities>>
                /\ tools' = o.tools
                /\ last' = Performed("list_tools", id, x, o.result, o.err, o.resp_id)
    /\ UNCHANGED <<vmVars, retry, fwVars, imgVars>>

\* pub async fn call_tool(&mut self, name, arguments)
call_tool ==
    /\ ~transport.dropped
    /\ calls < MaxCalls
    /\ calls' = calls + 1
    /\ IF ensure_ready(state) # "Ok"
       THEN /\ last' = Rejected("call_tool", ensure_ready(state))
            /\ UNCHANGED <<state, next_id, server_capabilities, tools, transport, sent>>
       ELSE \E ev \in EventsFor(transport) :
            LET id == next_id
                x  == Exchange(transport, id, ev)
                r  == x.resp
            IN  /\ next_id' = fetch_add(next_id)
                /\ sent' = Append(sent, id)
                /\ transport' = x.tr
                /\ UNCHANGED <<state, server_capabilities, tools>>
                /\ IF x.outcome # "response"
                   THEN last' = Performed("call_tool", id, x, FailureOf(x), x.err, 0)
                   ELSE IF ~is_success(r)
                   THEN last' = Performed("call_tool", id, x, "Err",
                                  IF r.error.present THEN "error_response" ELSE "unknown_error",
                                  r.id)
                   ELSE last' = Performed("call_tool", id, x, "Ok", "none", r.id)
    /\ UNCHANGED <<vmVars, retry, fwVars, imgVars>>

\* StdioTransport::kill through McpClient::transport_mut(): the child is
\* taken out of its slot, then killed and waited for; `connected` is cleared
\* only when both succeeded.  Without a child it does nothing and returns Ok.
transport_kill ==
    \E k \in SignalOutcomes :
        /\ ~transport.dropped
        /\ transport' =
             IF transport.child = "None"
             THEN [transport EXCEPT
                     !.op = [fn |-> "kill", result |-> "Ok", signalled |-> FALSE]]
             ELSE IF k = "Ok"
             THEN [transport EXCEPT
                     !.child = "None", !.connected = FALSE, !.server_open = FALSE,
                     !.kill_issued = TRUE, !.reaped = TRUE,
                     !.op = [fn |-> "kill", result |-> "Ok", signalled |-> TRUE]]
             ELSE [transport EXCEPT
                     !.child = "None", !.kill_issued = TRUE,
                     !.op = [fn |-> "kill", result |-> "Err", signalled |-> TRUE]]
        /\ UNCHANGED <<state, next_id, server_capabilities, tools, sent, last, calls>>
        /\ UNCHANGED <<vmVars, retry, fwVars, imgVars>>

\* StdioTransport::wait through McpClient::transport_mut(): the child is
\* taken out of its slot and waited for; `connected` is cleared only when the
\* wait succeeded.  Without a child it returns Ok(None).
transport_wait ==
    \E w \in SignalOutcomes :
        /\ ~transport.dropped
        /\ transport' =
             IF transport.child = "None"
             THEN [transport EXCEPT
                     !.op = [fn |-> "wait", result |-> "Ok", signalled |-> FALSE]]
             ELSE IF w = "Ok"
             THEN [transport EXCEPT
                     !.child = "None", !.connected = FALSE, !.server_open = FALSE,
                     !.reaped = TRUE,
                     !.op = [fn |-> "wait", result |-> "Ok", signalled |-> FALSE]]
             ELSE [transport EXCEPT
                     !.child = "None",
                     !.op = [fn |-> "wait", result |-> "Err", signalled |-> FALSE]]
        /\ UNCHANGED <<state, next_id, server_capabilities, tools, sent, last, calls>>
        /\ UNCHANGED <<vmVars, retry, fwVars, imgVars>>

\* The client, and with it the transport it owns, goes out of scope: impl
\* Drop for StdioTransport.  A child still in its slot is sent a kill
\* (start_kill, its result ignored); a child taken earlier is not touched.
transport_drop ==
    /\ ~transport.dropped
    /\ transport' =
         IF transport.child = "Some"
         THEN [transport EXCEPT
                 !.child = "None", !.kill_issued = TRUE, !.dropped = TRUE,
                 !.op = [fn |-> "drop", result |-> "none", signalled |-> TRUE]]
         ELSE [transport EXCEPT
                 !.dropped = TRUE,
                 !.op = [fn |-> "drop", result |-> "none", signalled |-> FALSE]]
    /\ UNCHANGED <<state, next_id, server_capabilities, tools, sent, last, calls>>
    /\ UNCHANGED <<vmVars, retry, fwVars, imgVars>>

----------------------------------------------------------------------------
(* mcp/retry.rs: strings are sequences of characters *)

UpperCase == <<"A", "B", "C", "D", "E", "F", "G", "H", "I", "J", "K", "L", "M", "N", "O", "P", "Q", "R", "S", "T", "U", "V", "W", "X", "Y", "Z">>

LowerCase == <<"a", "b", "c", "d", "e", "f", "g", "h", "i", "j", "k", "l", "m", "n", "o", "p", "q", "r", "s", "t", "u", "v", "w", "x", "y", "z">>

Digits == <<"0", "1", "2", "3", "4", "5", "6", "7", "8", "9">>

\* str::to_lowercase (on the ASCII letters the messages are made of)
to_lowercase(text) ==
    [ i \in 1..Len(text) |->
        IF \E j \in 1..26 : UpperCase[j] = text[i]
        THEN LowerCase[CHOOSE j \in 1..26 : UpperCase[j] = text[i]]
        ELSE text[i] ]

\* The same letters in upper case (how a caller may spell a message).
to_uppercase(text) ==
    [ i \in 1..Len(text) |->
        IF \E j \in 1..26 : LowerCase[j] = text[i]
        THEN UpperCase[CHOOSE j \in 1..26 : LowerCase[j] = text[i]]
        ELSE text[i] ]

RECURSIVE FormatInt(_)
\* Display of an i32: the `{}` of self.code
FormatInt(n) ==
    IF n < 0 THEN <<"-">> \o FormatInt(0 - n)
    ELSE IF n < 10 THEN <<Digits[n + 1]>>
    ELSE FormatInt(n \div 10) \o <<Digits[(n % 10) + 1]>>

\* The patterns should_retry_error looks for.
KwUnauthorized == <<"u", "n", "a", "u", "t", "h", "o", "r", "i", "z", "e", "d">>

KwForbidden == <<"f", "o", "r", "b", "i", "d", "d", "e", "n">>

KwInvalid == <<"i", "n", "v", "a", "l", "i", "d">>

KwConnection == <<"c", "o", "n", "n", "e", "c", "t", "i", "o", "n">>

KwTimeout == <<"t", "i", "m", "e", "o", "u", "t">>

KwTimedOut == <<"t", "i", "m", "e", "d", " ", "o", "u", "t">>

KwNetwork == <<"n", "e", "t", "w", "o", "r", "k">>

KwDns == <<"d", "n", "s">>

KwTemporary == <<"t", "e", "m", "p", "o", "r", "a", "r", "y">>

\* should_retry_error without the rule for "invalid".
should_retry_error_NoInvalidRule(cfg, msg) ==
    LET error_msg == to_lowercase(msg) IN
    IF Contains(error_msg, KwUnauthorized) \/ Contains(error_msg, KwForbidden) THEN FALSE
    ELSE IF \/ Contains(error_msg, KwConnection)
            \/ Contains(error_msg, KwTimeout)
            \/ Contains(error_msg, KwTimedOut)
            \/ Contains(error_msg, KwNetwork)
            \/ Contains(error_msg, KwDns)
            \/ Contains(error_msg, KwTemporary)
    THEN TRUE
    ELSE FALSE

\* RetryConfig::should_retry_error(&self, error): `cfg` is self, `msg` is
\* error.to_string().
should_retry_error(cfg, msg) ==
    LET error_msg == to_lowercase(msg) IN
    IF Contains(error_msg, KwUnauthorized) \/ Contains(error_msg, KwForbidden) THEN FALSE
    ELSE IF Contains(error_msg, KwInvalid) /\ ~Contains(error_msg, KwTimeout) THEN FALSE
    ELSE IF \/ Contains(error_msg, KwConnection)
            \/ Contains(error_msg, KwTimeout)
            \/ Contains(error_msg, KwTimedOut)
            \/ Contains(error_msg, KwNetwork)
            \/ Contains(error_msg, KwDns)
            \/ Contains(error_msg, KwTemporary)
    THEN TRUE
    ELSE FALSE

\* Messages of errors an operation handed to retry_with_backoff fails with.
PlainErrors ==
    { <<"C", "o", "n", "n", "e", "c", "t", "i", "o", "n", " ", "r", "e", "f", "u", "s", "e", "d">>,
      <<"R", "e", "q", "u", "e", "s", "t", " ", "t", "i", "m", "e", "d", " ", "o", "u", "t">>,
      <<"U", "n", "a", "u", "t", "h", "o", "r", "i", "z", "e", "d">>,
      <<"I", "n", "v", "a", "l", "i", "d", " ", "J", "S", "O", "N">>,
      <<"T", "e", "m", "p", "o", "r", "a", "r", "y", " ", "f", "a", "i", "l", "u", "r", "e">>,
      <<"P", "e", "r", "m", "a", "n", "e", "n", "t", " ", "f", "a", "i", "l", "u", "r", "e">>,
      <<"C", "o", "n", "n", "e", "c", "t", "i", "o", "n", " ", "t", "i", "m", "e", "o", "u", "t">>,
      <<"i", "n", "v", "a", "l", "i", "d", " ", "T", "I", "M", "E", "O", "U", "T", " ", "v", "a", "l", "u", "e">>,
      <<"F", "o", "r", "b", "i", "d", "d", "e", "n", ":", " ", "n", "e", "t", "w", "o", "r", "k", " ", "p", "o", "l", "i", "c", "y">>,
      <<"D", "N", "S", " ", "l", "o", "o", "k", "u", "p", " ", "f", "a", "i", "l", "e", "d">>,
      <<"F", "a", "i", "l", "e", "d", " ", "t", "o", " ", "r", "e", "c", "e", "i", "v", "e", " ", "t", "o", "o", "l", "s", "/", "c", "a", "l", "l", " ", "r", "e", "s", "p", "o", "n", "s", "e">> }

\* Error objects of JSON-RPC error responses: [code, message].
ServerErrors ==
    { [code |-> -32000, message |-> <<"C", "o", "n", "n", "e", "c", "t", "i", "o", "n", " ", "f", "a", "i", "l", "e", "d">>],
      [code |-> -32602, message |-> <<"I", "n", "v", "a", "l", "i", "d", " ", "p", "a", "r", "a", "m", "s">>],
      [code |-> -32601, message |-> <<"M", "e", "t", "h", "o", "d", " ", "n", "o", "t", " ", "f", "o", "u", "n", "d">>] }

ToolNames == { <<"e", "c", "h", "o">>, <<"d", "n", "s", "_", "l", "o", "o", "k", "u", "p">> }

\* impl Display for McpError: "[Error {code}] {message}"
DisplayMcpError(e) ==
    <<"[", "E", "r", "r", "o", "r", " ">> \o FormatInt(e.code) \o <<"]", " ">> \o e.message

\* call_tool, line 369: anyhow!("Tool '{}' failed: {}", name, error)
ToolFailedMessage(name, e) ==
    <<"T", "o", "o", "l", " ", "'">> \o name \o <<"'", " ", "f", "a", "i", "l", "e", "d", ":", " ">> \o DisplayMcpError(e)

\* initialize, line 214: anyhow!("Initialize failed: {}", error)
InitializeFailedMessage(e) ==
    <<"I", "n", "i", "t", "i", "a", "l", "i", "z", "e", " ", "f", "a", "i", "l", "e", "d", ":", " ">> \o DisplayMcpError(e)

----------------------------------------------------------------------------
(* mcp/retry.rs: RetryConfig, calculate_delay, retry_with_backoff *)

\* impl Default for RetryConfig; delays in milliseconds, jitter in percent.
DefaultRetryConfig ==
    [ max_attempts |-> 3, base_delay |-> 100, max_delay |-> 5000, jitter |-> 10 ]

\* The configurations the builder methods produce in the model.
RetryConfigs ==
    { [ max_attempts |-> a, base_delay |-> 100, max_delay |-> m, jitter |-> j ] :
        a \in 0..MaxAttempts, m \in {5000, 150}, j \in {0, 10} }
    \cup { [ DefaultRetryConfig EXCEPT !.max_attempts = ManyAttempts ] }

\* rand::random::<f64>() is in [0, 1): the samples, in hundredths.
RandSamples == {0, 25, 50, 75, 99}

\* 2_u32.pow(attempt as u32): 2^k for k < 32 (kept as its exponent); from
\* 32 on the multiplication overflows u32, which panics in a build with
\* overflow checks and wraps to 0 in a build without.
u32_pow2(k, overflow_checks) ==
    IF k < 32 THEN [panic |-> FALSE, zero |-> FALSE, log2 |-> k]
    ELSE IF overflow_checks THEN [panic |-> TRUE, zero |-> FALSE, log2 |-> 0]
    ELSE [panic |-> FALSE, zero |-> TRUE, log2 |-> 0]

Min(a, b) == IF a <= b THEN a ELSE b

RECURSIVE duration_mul_pow2(_, _)
\* Duration * u32 for the factor 2^k, by doubling.
duration_mul_pow2(d, k) ==
    IF k = 0 \/ d >= DurationCap THEN Min(d, DurationCap)
    ELSE duration_mul_pow2(Min(2 * d, DurationCap), k - 1)

Abs(x) == IF x < 0 THEN 0 - x ELSE x

\* RetryConfig::calculate_delay(&self, attempt) with the random sample `rnd`
\* it draws: the panic, or the Duration returned.
calculate_delay(cfg, attempt, rnd, overflow_checks) ==
    LET p == u32_pow2(attempt, overflow_checks) IN
    IF p.panic THEN [panic |-> TRUE, delay |-> 0]
    ELSE LET exponential_delay ==
                 IF p.zero THEN 0 ELSE duration_mul_pow2(cfg.base_delay, p.log2)
             jitter_range == (exponential_delay * cfg.jitter) \div 100
             jitter_offset == (rnd - 50) * 2 * jitter_range
             jittered_delay == exponential_delay + (Abs(jitter_offset) \div 100)
         IN  [panic |-> FALSE, delay |-> Min(jittered_delay, cfg.max_delay)]

\* What one invocation of the operation returns.
OkOutcome == [ok |-> TRUE, kind |-> "ok", msg |-> <<>>]

OperationOutcomes ==
    {OkOutcome}
    \cup { [ok |-> FALSE, kind |-> "plain", msg |-> m] : m \in PlainErrors }
    \cup { [ok |-> FALSE, kind |-> "error_response", msg |-> ToolFailedMessage(n, e)] :
             n \in ToolNames, e \in ServerErrors }
    \cup { [ok |-> FALSE, kind |-> "error_response", msg |-> InitializeFailedMessage(e)] :
             e \in ServerErrors }

NoCalc == [called |-> FALSE, attempt |-> 0, rnd |-> 0, panic |-> FALSE, delay |-> 0]

\* No call of retry_with_backoff in progress.
NoRetry ==
    [ config |-> DefaultRetryConfig, overflow_checks |-> FALSE, pc |-> "idle",
      attempt |-> 0, invocations |-> 0, sleeps |-> 0, delay |-> 0,
      outcome |-> OkOutcome, retried |-> FALSE,
      last_error |-> [present |-> FALSE, msg |-> <<>>],
      result |-> "none", error |-> <<>>, calc |-> NoCalc ]

\* retry_with_backoff(config, operation) entered: the loop is at attempt 0.
StartRetry(cfg, oc) ==
    [ NoRetry EXCEPT !.config = cfg, !.overflow_checks = oc, !.pc = "loop" ]

\* The retry decision of line 255 taken without asking should_retry_error.
retry_eligible_AnyError(cfg, attempt, msg) ==
    attempt < cfg.max_attempts - 1

\* line 255: attempt < config.max_attempts - 1 && config.should_retry_error(&e)
retry_eligible(cfg, attempt, msg) ==
    attempt < cfg.max_attempts - 1 /\ should_retry_error(cfg, msg)

\* retry_with_backoff: one iteration of `for attempt in 0..config.max_attempts`:
\* the operation is invoked and its result handled (return, or sleep and go on).
retry_with_backoff ==
    \E o \in OperationOutcomes :
        LET cfg == retry.config
            k   == retry.attempt
            r1  == [ retry EXCEPT !.invocations = @ + 1, !.outcome = o,
                                  !.retried = FALSE ]
        IN  /\ retry.pc = "loop"
            /\ k < cfg.max_attempts
            /\ IF o.ok
               THEN retry' = [ r1 EXCEPT !.pc = "returned", !.result = "Ok" ]
               ELSE IF retry_eligible(cfg, k, o.msg)
               THEN \E rnd \in RandSamples :
                      LET cd == calculate_delay(cfg, k, rnd, retry.overflow_checks) IN
                      retry' =
                        IF cd.panic
                        THEN [ r1 EXCEPT !.pc = "panicked", !.retried = TRUE ]
                        ELSE [ r1 EXCEPT !.retried = TRUE, !.sleeps = @ + 1,
                                         !.delay = cd.delay, !.attempt = k + 1,
                                         !.last_error = [present |-> TRUE, msg |-> o.msg] ]
               ELSE retry' = [ r1 EXCEPT !.pc = "returned", !.result = "Err",
                                         !.error = o.msg ]
            /\ UNCHANGED <<vmVars, clientVars, fwVars, imgVars>>

\* line 277: the message of the error made up when no error was kept.
AllRetryAttemptsFailed == <<"A", "l", "l", " ", "r", "e", "t", "r", "y", " ", "a", "t", "t", "e", "m", "p", "t", "s", " ", "f", "a", "i", "l", "e", "d">>

\* The end of the loop handing back the kept error only, with no message of
\* its own when none was kept.
retry_loop_end_NoMessage ==
    /\ retry.pc = "loop"
    /\ retry.attempt >= retry.config.max_attempts
    /\ retry' = [ retry EXCEPT !.pc = "returned", !.result = "Err",
                    !.error = retry.last_error.msg ]
    /\ UNCHANGED <<vmVars, clientVars, fwVars, imgVars>>

\* retry_with_backoff, line 277: the range is used up without a return.
retry_loop_end ==
    /\ retry.pc = "loop"
    /\ retry.attempt >= retry.config.max_attempts
    /\ retry' = [ retry EXCEPT !.pc = "returned", !.result = "Err",
                    !.error = IF retry.last_error.present THEN retry.last_error.msg
                              ELSE AllRetryAttemptsFailed ]
    /\ UNCHANGED <<vmVars, clientVars, fwVars, imgVars>>

\* A direct call config.calculate_delay(attempt).
calculate_delay_call ==
    \E k \in 0..MaxDelayAttempt, rnd \in RandSamples :
        LET cd == calculate_delay(retry.config, k, rnd, retry.overflow_checks) IN
        /\ retry.pc = "idle"
        /\ ~retry.calc.called
        /\ retry' = [ retry EXCEPT !.calc =
                        [ called |-> TRUE, attempt |-> k, rnd |-> rnd,
                          panic |-> cd.panic, delay |-> cd.delay ] ]
        /\ UNCHANGED <<vmVars, clientVars, fwVars, imgVars>>

----------------------------------------------------------------------------
(* vm/firewall.rs: a FirewallManager held by a direct caller *)

ManagerSlots == 1..MaxManagers

NoManager == [ live |-> FALSE, vm_id |-> <<>>, chain_name |-> <<>> ]

NoFwCall == [ fn |-> "none", slot |-> 0, result |-> "none", after |-> "none" ]

\* The record of a call. `after` tells what the same manager did just before
\* it, with no other call in between: "configure_isolation" for a successful
\* configure_isolation, "cleanup" for a cleanup that itself came after one of
\* these two, "none" otherwise.
FwCall(fn, s, result) ==
    [ fn |-> fn, slot |-> s, result |-> result,
      after |->
        IF lastFw.slot = s /\ lastFw.fn = "configure_isolation" /\ lastFw.result = "Ok"
        THEN "configure_isolation"
        ELSE IF lastFw.slot = s /\ lastFw.fn \in {"cleanup", "cleanup_async"}
                /\ lastFw.after # "none"
        THEN "cleanup"
        ELSE "none" ]

\* FirewallManager::cleanup_async: as cleanup, except that flush_chain and
\* delete_chain pass on the error of an iptables binary that cannot be run.
cleanup_async(c, name) ==
    IF ~host.iptables THEN [ok |-> FALSE, chains |-> c]
    ELSE [ok |-> TRUE, chains |-> cleanup(c, name)]

\* FirewallManager::block_interface: `iptables -I INPUT -i <if> -j <chain>`
\* then the same for FORWARD; each needs root and an existing target chain.
block_interface(c, j, name, interface) ==
    IF Privileged /\ c[name].exists
    THEN [ok |-> TRUE,  jumps |-> [j EXCEPT ![name] = @ \cup {interface}]]
    ELSE [ok |-> FALSE, jumps |-> j]

\* FirewallManager::new(vm_id); the caller keeps it in the lowest free slot.
manager_new ==
    \E s \in ManagerSlots, id \in ManagerIds :
        /\ ~managers[s].live
        /\ \A t \in ManagerSlots : ~managers[t].live => s <= t
        /\ managers' = [managers EXCEPT ![s] =
             [ live |-> TRUE, vm_id |-> id, chain_name |-> chain_name(id) ]]
        /\ lastFw' = FwCall("new", s, "Ok")
        /\ UNCHANGED <<jumps, vmVars, mcpVars, imgVars>>

manager_configure_isolation ==
    \E s \in ManagerSlots :
        /\ managers[s].live
        /\ LET r == configure_isolation(chains, managers[s].chain_name) IN
             /\ chains' = r.chains
             /\ lastFw' = FwCall("configure_isolation", s, IF r.ok THEN "Ok" ELSE "Err")
        /\ UNCHANGED <<managers, jumps, host, handles, procs, lastSpawn, lastDestroy,
                       mcpVars, imgVars>>

manager_block_interface ==
    \E s \in ManagerSlots, interface \in {"tap0"} :
        /\ managers[s].live
        /\ LET r == block_interface(chains, jumps, managers[s].chain_name, interface) IN
             /\ jumps' = r.jumps
             /\ lastFw' = FwCall("block_interface", s, IF r.ok THEN "Ok" ELSE "Err")
        /\ UNCHANGED <<managers, vmVars, mcpVars, imgVars>>

manager_verify_isolation ==
    \E s \in ManagerSlots :
        /\ managers[s].live
        /\ lastFw' = FwCall("verify_isolation", s,
                        IF verify_isolation(chains, managers[s].chain_name)
                        THEN "true" ELSE "false")
        /\ UNCHANGED <<managers, jumps, vmVars, mcpVars, imgVars>>

manager_cleanup ==
    \E s \in ManagerSlots :
        /\ managers[s].live
        /\ chains' = cleanup(chains, managers[s].chain_name)
        /\ lastFw' = FwCall("cleanup", s, "Ok")
        /\ UNCHANGED <<managers, jumps, host, handles, procs, lastSpawn, lastDestroy,
                       mcpVars, imgVars>>

manager_cleanup_async ==
    \E s \in ManagerSlots :
        /\ managers[s].live
        /\ LET r == cleanup_async(chains, managers[s].chain_name) IN
             /\ chains' = r.chains
             /\ lastFw' = FwCall("cleanup_async", s, IF r.ok THEN "Ok" ELSE "Err")
        /\ UNCHANGED <<managers, jumps, host, handles, procs, lastSpawn, lastDestroy,
                       mcpVars, imgVars>>

\* The manager goes out of scope: impl Drop for FirewallManager.
manager_drop ==
    \E s \in ManagerSlots :
        /\ managers[s].live
        /\ chains' = FirewallManagerDrop(chains, managers[s].chain_name)
        /\ managers' = [managers EXCEPT ![s] = NoManager]
        /\ lastFw' = FwCall("drop", s, "Ok")
        /\ UNCHANGED <<jumps, host, handles, procs, lastSpawn, lastDestroy,
                       mcpVars, imgVars>>

----------------------------------------------------------------------------
(* vm/rootfs.rs: RootfsConfig *)

\* The configs setup is called on.  An Option<PathBuf> is "None", "present"
\* (a file that is there) or "missing" (a path with nothing behind it).
RootfsConfigs ==
    { [ rootfs_path      |-> "rootfs_signed",
        hash_tree_path   |-> h,
        signature_path   |-> g,
        pub_key_path     |-> k,
        enable_integrity |-> i,
        enable_signature |-> e ] :
      h \in {"None", "present", "missing"}, g \in {"None", "present", "missing"},
      k \in {"None", "present", "missing"}, i \in BOOLEAN, e \in BOOLEAN }

\* RootfsConfig::verify_integrity: Err, or the IntegrityReport.
verify_integrity(cfg) ==
    IF ~cfg.enable_integrity
    THEN [ok |-> TRUE, verified |-> FALSE, tampered |-> FALSE]
    ELSE IF cfg.hash_tree_path = "None"
    THEN [ok |-> FALSE, verified |-> FALSE, tampered |-> FALSE]
    ELSE IF ~PathExists(cfg.hash_tree_path)
    THEN [ok |-> TRUE, verified |-> FALSE, tampered |-> FALSE]
    ELSE [ok |-> TRUE, verified |-> TRUE, tampered |-> FALSE]

\* RootfsConfig::verify_signature: Err, or the SignatureReport.
verify_signature(cfg) ==
    IF ~cfg.enable_signature
    THEN [ok |-> TRUE, verified |-> FALSE]
    ELSE IF cfg.signature_path = "None" \/ cfg.pub_key_path = "None"
    THEN [ok |-> FALSE, verified |-> FALSE]
    ELSE IF ~PathExists(cfg.signature_path)
    THEN [ok |-> TRUE, verified |-> FALSE]
    ELSE IF ~PathExists(cfg.pub_key_path)
    THEN [ok |-> TRUE, verified |-> FALSE]
    ELSE [ok |-> TRUE, verified |-> TRUE]

NoSetup ==
    [ called |-> FALSE,
      config |-> CHOOSE cfg \in RootfsConfigs :
                    /\ cfg.hash_tree_path = "present" /\ cfg.signature_path = "present"
                    /\ cfg.pub_key_path = "present"
                    /\ cfg.enable_integrity /\ cfg.enable_signature,
      result |-> "none",
      steps |-> <<>>, integrity_verified |-> FALSE, signature_verified |-> FALSE,
      mounted |-> FALSE, overlay |-> FALSE ]

\* RootfsConfig::setup, given what the two mount(8) commands do ("Ok"/"Err").
setup(cfg, mount, overlay) ==
    LET integrity_report == verify_integrity(cfg)
        signature_report == verify_signature(cfg)
        run == [ NoSetup EXCEPT !.called = TRUE, !.config = cfg, !.result = "Err" ]
    IN
    IF ~integrity_report.ok \/ integrity_report.tampered
    THEN [ run EXCEPT !.steps = <<"verify_integrity">> ]
    ELSE IF ~signature_report.ok \/ (~signature_report.verified /\ cfg.enable_signature)
    THEN [ run EXCEPT !.steps = <<"verify_integrity", "verify_signature">>,
                      !.integrity_verified = integrity_report.verified ]
    ELSE IF mount = "Err"
    THEN [ run EXCEPT !.steps = <<"verify_integrity", "verify_signature", "mount_readonly">>,
                      !.integrity_verified = integrity_report.verified,
                      !.signature_verified = signature_report.verified ]
    ELSE IF overlay = "Err"
    THEN [ run EXCEPT !.steps = <<"verify_integrity", "verify_signature", "mount_readonly",
                                  "setup_tmp_overlay">>,
                      !.integrity_verified = integrity_report.verified,
                      !.signature_verified = signature_report.verified,
                      !.mounted = TRUE ]
    ELSE [ run EXCEPT !.result = "Ok",
                      !.steps = <<"verify_integrity", "verify_signature", "mount_readonly",
                                  "setup_tmp_overlay">>,
                      !.integrity_verified = integrity_report.verified,
                      !.signature_verified = signature_report.verified,
                      !.mounted = TRUE, !.overlay = TRUE ]

----------------------------------------------------------------------------
(* vm/signature.rs: verify_rootfs *)

\* What the image file holds when it is verified.
ImageContents == {"original data", "tampered data"}

\* calculate_checksum: the SHA-256 of the file's bytes, in hex.
calculate_checksum(content) == <<"sha256", content>>

\* Ed25519 key pairs, by key id; the public key of k is <<"public", k>>.
KeyIds == {"test-key", "other-key"}

\* The RootfsSignature records read back from disk.  The bytes of
\* `signature` are written as what they are a valid Ed25519 signature of: a
\* checksum under a key pair, or nothing at all.
RootfsSignatures ==
    { [signature |-> b, key_id |-> "test-key", checksum |-> calculate_checksum(c)] :
      b \in { [over |-> calculate_checksum(d), by |-> k] : d \in ImageContents, k \in KeyIds }
             \cup { [over |-> <<>>, by |-> "nobody"] },
      c \in ImageContents }

\* verify_rootfs: the Ok(bool) it returns for a readable image.
verify_rootfs(content, signature, public_key_pem) ==
    IF calculate_checksum(content) # signature.checksum THEN FALSE
    ELSE TRUE

NoVerify ==
    [ called |-> FALSE, content |-> "original data",
      signature |-> [ signature |-> [over |-> <<>>, by |-> "nobody"],
                      key_id |-> "test-key",
                      checksum |-> calculate_checksum("original data") ],
      public_key_pem |-> <<"public", "test-key">>, result |-> FALSE ]

\* RootfsConfig::setup, called on one of the configs.
rootfs_setup ==
    \E cfg \in RootfsConfigs, mount \in {"Ok", "Err"}, overlay \in {"Ok", "Err"} :
        /\ lastSetup' = setup(cfg, mount, overlay)
        /\ lastVerify' = NoVerify
        /\ lastValidate' = NoValidate
        /\ UNCHANGED <<vmVars, mcpVars, fwVars>>

verify_rootfs_call ==
    \E content \in ImageContents, signature \in RootfsSignatures, k \in KeyIds :
        /\ lastVerify' =
             [ called |-> TRUE, content |-> content, signature |-> signature,
               public_key_pem |-> <<"public", k>>,
               result |-> verify_rootfs(content, signature, <<"public", k>>) ]
        /\ lastSetup' = NoSetup
        /\ lastValidate' = NoValidate
        /\ UNCHANGED <<vmVars, mcpVars, fwVars>>

\* VmConfig::validate, called on one of the configs.
validate_call ==
    \E cfg \in ValidatedConfigs :
        /\ lastValidate' = [ called |-> TRUE, config |-> cfg, result |-> validate(cfg) ]
        /\ lastSetup' = NoSetup
        /\ lastVerify' = NoVerify
        /\ UNCHANGED <<vmVars, mcpVars, fwVars>>

----------------------------------------------------------------------------
(* The specifications *)

InitVmState ==
    /\ chains = [n \in ChainNames |-> NoChain]
    /\ handles = [s \in Slots |-> NoHandle]
    /\ procs = [s \in Slots |-> NoProc]
    /\ lastSpawn = NoSpawn
    /\ lastDestroy = NoDestroy

\* McpClient::new(transport) on a freshly spawned StdioTransport
InitMcpState ==
    /\ state = "Created"
    /\ next_id = 1
    /\ server_capabilities = NoCapabilities
    /\ tools = <<>>
    /\ transport = NewTransport
    /\ sent = <<>>
    /\ last = NoCall
    /\ calls = 0

InitRetryState == retry = NoRetry

InitFwState ==
    /\ managers = [s \in ManagerSlots |-> NoManager]
    /\ jumps = [n \in ChainNames |-> {}]
    /\ lastFw = NoFwCall

InitImgState ==
    /\ lastSetup = NoSetup
    /\ lastVerify = NoVerify
    /\ lastValidate = NoValidate

\* The Linux hosts the orchestrator is run on.
Hosts ==
    { [iptables |-> TRUE,  root |-> TRUE,  jailer |-> TRUE],
      [iptables |-> TRUE,  root |-> TRUE,  jailer |-> FALSE],
      [iptables |-> TRUE,  root |-> FALSE, jailer |-> TRUE],
      [iptables |-> FALSE, root |-> TRUE,  jailer |-> TRUE] }

DefaultHost == [iptables |-> TRUE, root |-> TRUE, jailer |-> TRUE]

\* Firecracker VMs on a Linux host.
InitVm ==
    /\ host \in Hosts
    /\ InitVmState
    /\ InitMcpState
    /\ InitFwState
    /\ InitImgState
    /\ InitRetryState

NextVm ==
    \/ spawn_vm_with_config
    \/ spawn_vm_jailed
    \/ destroy_vm
    \/ destroy_vm_jailed

SpecVm == InitVm /\ [][NextVm]_vars

\* WHPX partitions on a Windows host.
InitHyperv ==
    /\ host = DefaultHost
    /\ InitVmState
    /\ InitMcpState
    /\ InitFwState
    /\ InitImgState
    /\ InitRetryState

NextHyperv ==
    \/ start_hyperv
    \/ hyperv_stop

SpecHyperv == InitHyperv /\ [][NextHyperv]_vars

\* FirewallManagers used directly, on a Linux host.
InitFirewall ==
    /\ host \in { h \in Hosts : h.jailer }
    /\ InitVmState
    /\ InitMcpState
    /\ InitFwState
    /\ InitImgState
    /\ InitRetryState

NextFirewall ==
    \/ manager_new
    \/ manager_configure_isolation
    \/ manager_block_interface
    \/ manager_verify_isolation
    \/ manager_cleanup
    \/ manager_cleanup_async
    \/ manager_drop

SpecFirewall == InitFirewall /\ [][NextFirewall]_vars

\* The checks made before a VM is started, called directly: validating a
\* VmConfig, setting up a rootfs, verifying a rootfs signature.
InitChecks ==
    /\ host = DefaultHost
    /\ InitVmState
    /\ InitMcpState
    /\ InitFwState
    /\ InitImgState
    /\ InitRetryState

NextChecks ==
    \/ validate_call
    \/ rootfs_setup
    \/ verify_rootfs_call

SpecChecks == InitChecks /\ [][NextChecks]_vars

\* One McpClient talking to one tool server.
InitMcp ==
    /\ host = DefaultHost
    /\ InitVmState
    /\ InitMcpState
    /\ InitFwState
    /\ InitImgState
    /\ InitRetryState

NextMcp ==
    \/ initialize
    \/ list_tools
    \/ call_tool
    \/ transport_kill
    \/ transport_wait
    \/ transport_drop

SpecMcp == InitMcp /\ [][NextMcp]_vars

\* One call of retry_with_backoff, in a build with or without overflow checks.
InitRetry ==
    /\ host = DefaultHost
    /\ InitVmState
    /\ InitMcpState
    /\ InitFwState
    /\ InitImgState
    /\ \E cfg \in RetryConfigs, oc \in BOOLEAN : retry = StartRetry(cfg, oc)

NextRetry ==
    \/ retry_with_backoff
    \/ retry_loop_end

SpecRetry == InitRetry /\ [][NextRetry]_vars

\* Direct calls of calculate_delay on a RetryConfig.
InitDelay ==
    /\ host = DefaultHost
    /\ InitVmState
    /\ InitMcpState
    /\ InitFwState
    /\ InitImgState
    /\ \E cfg \in RetryConfigs, oc \in BOOLEAN :
          retry = [ NoRetry EXCEPT !.config = cfg, !.overflow_checks = oc ]

NextDelay == calculate_delay_call

SpecDelay == InitDelay /\ [][NextDelay]_vars

----------------------------------------------------------------------------
(* Properties of the VM lifecycle (SpecVm) *)

SeqRange(q) == { q[i] : i \in 1..Len(q) }

StartSteps == {"start_firecracker", "start_jailed_firecracker"}

SpawnFns == {"spawn_vm_with_config", "spawn_vm_jailed"}

\* C1: no VM is created from an unvalidated config: a spawn of a config that
\* validate() rejects returns an error without starting a hypervisor, so every
\* running hypervisor was started from a config validate() accepts and has no
\* network device.
C1_NoVmFromInvalidConfig ==
    /\ (lastSpawn.fn \in SpawnFns /\ validate(lastSpawn.config) # "Ok") =>
          (lastSpawn.result = "Err" /\ SeqRange(lastSpawn.steps) \cap StartSteps = {})
    /\ \A s \in Slots : procs[s].running => (procs[s].config_valid /\ ~procs[s].netdev)

Existing(c) == { n \in DOMAIN c : c[n].exists }

\* C2: spawn is atomic: a spawn_vm_with_config or spawn_vm_jailed call that
\* returns an error leaves no chain on the host that was not there before the
\* call, constructs no handle and leaves no hypervisor process behind.
C2_AtomicSpawn ==
    [][ (lastSpawn'.fn \in SpawnFns /\ lastSpawn'.result = "Err") =>
            /\ Existing(chains') \subseteq Existing(chains)
            /\ handles' = handles
            /\ procs' = procs ]_vars

\* C2 witness: a spawn that created its chain and drop rule, then failed to
\* start the hypervisor and dropped its FirewallManager.
C2_Witness ==
    /\ lastSpawn.fn \in SpawnFns
    /\ lastSpawn.result = "Err"
    /\ lastSpawn.configured
    /\ lastSpawn.failed_at \in StartSteps
    /\ "drop_firewall_manager" \in SeqRange(lastSpawn.steps)

C4_IntegrityCheckedFirst ==
    /\ (lastSpawn.fn \in SpawnFns /\ "configure_isolation" \in SeqRange(lastSpawn.steps)) =>
          \E i, j, k \in 1..Len(lastSpawn.steps) :
              /\ lastSpawn.steps[i] = "validate"
              /\ lastSpawn.steps[j] = "verify_rootfs"
              /\ lastSpawn.steps[k] = "configure_isolation"
              /\ i < j /\ j < k
    /\ (lastSpawn.fn \in SpawnFns /\ lastSpawn.config.rootfs_path = "rootfs_tampered") =>
          (lastSpawn.result = "Err" /\ SeqRange(lastSpawn.steps) \cap StartSteps = {})

----------------------------------------------------------------------------
(* Properties of the MCP client (SpecMcp) *)

\* The last call ended because Transport::send or Transport::recv failed.
TransportFailed == last.result = "Err" /\ last.err \in {"write", "not_connected", "eof", "deserialize"}

\* C5: list_tools and call_tool are legal only in Ready: ensure_ready accepts
\* no other state, and a list_tools or call_tool made in another state
\* returns an error without calling Transport::send or Transport::recv.
C5_WrongStateNoIo ==
    /\ \A st \in ClientStates \ {"Ready"} : ensure_ready(st) # "Ok"
    /\ (last.op \in {"list_tools", "call_tool"} /\ last.pre # "Ready") =>
          /\ last.result = "Err"
          /\ last.sends = 0 /\ last.recvs = 0
          /\ ~last.wrote /\ ~last.read
          /\ last.req_id \notin SeqRange(sent)

\* C5 witness: list_tools or call_tool rejected in Initializing.
C5_Witness ==
    /\ last.op \in {"list_tools", "call_tool"}
    /\ last.pre = "Initializing"
    /\ last.result = "Err"
    /\ Len(sent) = 1

\* C6: an initialize that got an error response, or whose send or recv
\* failed, leaves the client Disconnected (never Ready), and a list_tools
\* after it is rejected.
C6_FailedInitializeDisconnects ==
    /\ (last.op = "initialize" /\ last.sends = 1 /\ last.result = "Err") =>
          state = "Disconnected"
    /\ (last.op = "list_tools" /\ last.pre \in {"Initializing", "Disconnected"}) =>
          (last.result = "Err" /\ last.sends = 0)

\* C7: a transport failure (send error, recv error, EOF) during initialize,
\* list_tools or call_tool moves the client to Disconnected.
C7_TransportFailureDisconnects ==
    TransportFailed => state = "Disconnected"

\* C8: a response accepted as the outcome of a call carries the id of the
\* request that call sent.
C8_ResponseIdMatchesRequest ==
    (last.result = "Ok" /\ last.sends = 1) => last.resp_id = last.req_id

\* C9: the ids handed to the transport are strictly increasing from 1, none
\* is used twice, and the next id to be allocated is larger than all of them.
C9_RequestIdsIncrease ==
    /\ Len(sent) > 0 => sent[1] = 1
    /\ \A i, j \in 1..Len(sent) : i < j => sent[i] < sent[j]
    /\ \A i \in 1..Len(sent) : sent[i] < next_id

\* C9 witness: a third request got a fresh id after an earlier call had hit
\* EOF: its send was refused by the disconnected transport.
C9_Witness ==
    /\ Len(sent) = 3
    /\ last.req_id = 3
    /\ last.result = "Err"
    /\ last.err = "not_connected"

\* C10: initialize is legal only from Created: called in any other state it
\* returns an error, sends no request and leaves the state as it was.
C10_InitializeOnlyFromCreated ==
    /\ \A st \in ClientStates \ {"Created"} : ~can_initialize(st)
    /\ (last.op = "initialize" /\ last.pre # "Created") =>
          /\ last.result = "Err"
          /\ last.sends = 0 /\ last.recvs = 0
          /\ last.req_id = 0
          /\ state = last.pre

\* C10 witness: a second initialize after a successful one.
C10_Witness ==
    /\ last.op = "initialize"
    /\ last.pre = "Ready"
    /\ last.result = "Err"
    /\ state = "Ready"
    /\ server_capabilities.present

\* C11: an initialize called in Created on a connected transport that receives
\* a success response carrying a string protocolVersion and a valid serverInfo
\* returns Ok, leaves the client Ready, and server_capabilities holds the
\* protocol version, the capabilities and the server info of that response.
C11_InitializeSuccessReady ==
    ( /\ last.op = "initialize"
      /\ last.pre = "Created"
      /\ last.resp.kind = "response"
      /\ last.resp.result.present
      /\ ~last.resp.error.present
      /\ last.resp.result.protocolVersion # "absent"
      /\ last.resp.result.serverInfo = "valid" )
    => /\ last.result = "Ok"
       /\ state = "Ready"
       /\ server_capabilities.present
       /\ server_capabilities.protocol_version = last.resp.result.protocolVersion
       /\ server_capabilities.capabilities = last.resp.result.capabilities
       /\ server_capabilities.server_info = last.resp.result.serverInfo

C11_Witness ==
    /\ last.op = "initialize"
    /\ last.pre = "Created"
    /\ last.result = "Ok"
    /\ last.resp.result = InitResult
    /\ state = "Ready"
    /\ server_capabilities.protocol_version = "2024-11-05"

\* C12: into_result is Ok exactly for a response with a result and no error,
\* gives back the carried error when there is only an error, and for a
\* response with both it is an error, is_success is false, and none of
\* initialize, list_tools, call_tool returns success on it.
C12_IntoResultAndBothPresent ==
    LET r  == last.resp
        ir == into_result(r)
        both == r.result.present /\ r.error.present
    IN  /\ ir.ok <=> (r.result.present /\ ~r.error.present)
        /\ ir.ok => ir.value = r.result
        /\ (~r.result.present /\ r.error.present) => (~ir.ok /\ ir.error = r.error)
        /\ both => /\ ~ir.ok
                   /\ ir.error.present
                   /\ ~is_success(r)
                   /\ last.op \in {"initialize", "list_tools", "call_tool"}
                        => last.result # "Ok"

C12_Witness ==
    /\ last.op = "call_tool"
    /\ last.resp.kind = "response"
    /\ last.resp.result.present
    /\ last.resp.error.present
    /\ last.result = "Err"
    /\ last.err = "error_response"

----------------------------------------------------------------------------
(* Properties of teardown (SpecVm) *)

DestroyFns == {"destroy_vm", "destroy_vm_jailed"}

\* C19: teardown errors are not surfaced: destroy_vm and destroy_vm_jailed
\* return success once cleanup has been attempted on every resource, also when
\* signalling or stopping the hypervisor process fails.
C19_DestroyAlwaysSucceeds ==
    lastDestroy.fn \in DestroyFns => lastDestroy.result = "Ok"

\* C20: a failing teardown step does not stop the remaining ones: when the
\* SIGTERM of destroy_vm fails, the force-kill of the still running process
\* and the removal of the firewall chain are attempted all the same.
C20_TeardownStepsAllAttempted ==
    ( /\ lastDestroy.fn = "destroy_vm"
      /\ lastDestroy.result = "Err"
      /\ lastDestroy.steps[1] = "terminate"
      /\ "is_running" \notin SeqRange(lastDestroy.steps) )
    => /\ "drop_firewall_manager" \in SeqRange(lastDestroy.steps)
       /\ procs[lastDestroy.slot].running =>
              "force_kill" \in SeqRange(lastDestroy.steps)

----------------------------------------------------------------------------
(* Properties of the retry engine (SpecRetry, SpecDelay) *)

\* C13: when an invocation of the operation fails with an error that
\* should_retry_error rejects, retry_with_backoff returns that very error at
\* once: no backoff sleep and no further invocation follow, whatever
\* max_attempts is (an "Unauthorized" first failure means one invocation).
C13_PermanentErrorReturnsAtOnce ==
    ( /\ retry.invocations > 0
      /\ ~retry.outcome.ok
      /\ ~should_retry_error(retry.config, retry.outcome.msg) )
    => /\ retry.pc = "returned"
       /\ retry.result = "Err"
       /\ retry.error = retry.outcome.msg
       /\ ~retry.retried
       /\ retry.invocations = retry.sleeps + 1

C13_Witness ==
    /\ retry.config.max_attempts = 3
    /\ retry.outcome.msg = <<"U", "n", "a", "u", "t", "h", "o", "r", "i", "z", "e", "d">>
    /\ retry.invocations = 1
    /\ retry.sleeps = 0
    /\ retry.pc = "returned"
    /\ retry.result = "Err"

\* C14: with only retryable failures the operation is invoked until its first
\* success or max_attempts invocations: k failures then a success give Ok
\* after k+1 invocations, max_attempts failures give the last error after
\* max_attempts invocations, and the call always comes to a return.
C14_RetryUntilSuccessOrMaxAttempts ==
    /\ retry.pc # "panicked"
    /\ retry.invocations <= retry.config.max_attempts
    /\ retry.pc = "loop" => retry.invocations = retry.sleeps
    /\ (retry.pc = "returned" /\ retry.result = "Ok") =>
          retry.invocations = retry.sleeps + 1
    /\ ( /\ retry.pc = "returned"
         /\ retry.result = "Err"
         /\ retry.invocations > 0
         /\ should_retry_error(retry.config, retry.outcome.msg) )
       => /\ retry.invocations = retry.config.max_attempts
          /\ retry.error = retry.outcome.msg

\* C15: a failure built from a JSON-RPC error response ("Tool '<name>' failed:
\* [Error <code>] <message>", "Initialize failed: ...") is never retried and
\* never classified retryable, whatever the message and the tool name contain.
C15_ErrorResponseNeverRetried ==
    retry.outcome.kind = "error_response" =>
        /\ ~retry.retried
        /\ ~should_retry_error(retry.config, retry.outcome.msg)

\* C16: should_retry_error depends on the lower-cased message only: it is true
\* exactly when the message has neither "unauthorized" nor "forbidden", has no
\* "invalid" without "timeout", and has one of "connection", "timeout",
\* "timed out", "network", "dns", "temporary"; the letter case of the message
\* and the RetryConfig make no difference.
C16_ShouldRetryClassification ==
    LET m == retry.outcome.msg
        l == to_lowercase(m)
        expected ==
            /\ ~Contains(l, KwUnauthorized)
            /\ ~Contains(l, KwForbidden)
            /\ ~(Contains(l, KwInvalid) /\ ~Contains(l, KwTimeout))
            /\ \E kw \in {KwConnection, KwTimeout, KwTimedOut, KwNetwork, KwDns, KwTemporary} :
                   Contains(l, kw)
    IN  /\ \A cfg \in {retry.config, DefaultRetryConfig} :
              /\ should_retry_error(cfg, m) = expected
              /\ should_retry_error(cfg, l) = expected
              /\ should_retry_error(cfg, to_uppercase(m)) = expected
        /\ (retry.invocations > 0 /\ retry.retried) => expected

C16_Witness ==
    /\ retry.outcome.msg = <<"i", "n", "v", "a", "l", "i", "d", " ", "T", "I", "M", "E", "O", "U", "T", " ", "v", "a", "l", "u", "e">>
    /\ retry.retried
    /\ retry.sleeps = 1
    /\ retry.config # DefaultRetryConfig

\* C17: calculate_delay(k) returns, for every attempt number k, a delay
\* between 0 and max_delay, and never overflows or panics.
C17_DelayBoundedNoPanic ==
    retry.calc.called =>
        /\ ~retry.calc.panic
        /\ retry.calc.delay >= 0
        /\ retry.calc.delay <= retry.config.max_delay

\* C18: the delay slept after the n-th failed attempt is d = min(base_delay *
\* 2^(n-1), max_delay) with a symmetric jitter of at most jitter * d: it lies
\* in [d(1 - jitter), d(1 + jitter)], and when jitter > 0 and d < max_delay
\* both a delay below d and a delay above d can come out.
C18_SymmetricJitter ==
    (retry.pc = "loop" /\ retry.retried /\ retry.sleeps >= 1) =>
        LET cfg == retry.config
            n   == retry.sleeps
            d   == Min(duration_mul_pow2(cfg.base_delay, n - 1), cfg.max_delay)
            Outcomes == { calculate_delay(cfg, n - 1, rnd, retry.overflow_checks).delay :
                            rnd \in RandSamples }
        IN  /\ retry.delay * 100 >= d * (100 - cfg.jitter)
            /\ retry.delay * 100 <= d * (100 + cfg.jitter)
            /\ (cfg.jitter > 0 /\ d < cfg.max_delay) =>
                  /\ \E x \in Outcomes : x < d
                  /\ \E x \in Outcomes : x > d

----------------------------------------------------------------------------
(* Properties of shutdown (SpecVm, SpecHyperv) *)

\* C21: stop_firecracker sends SIGTERM, then waits up to the bounded timeout
\* for the process to exit, and sends SIGKILL only when that wait has timed
\* out: in every destroy_vm that force-kills, a wait for the exit lies between
\* the SIGTERM and the SIGKILL.
C21_KillOnlyAfterWait ==
    ( /\ lastDestroy.fn = "destroy_vm"
      /\ "force_kill" \in SeqRange(lastDestroy.steps) )
    => \E i, j, k \in 1..Len(lastDestroy.steps) :
          /\ i < j /\ j < k
          /\ lastDestroy.steps[i] = "terminate"
          /\ lastDestroy.steps[j] = "wait_for_exit"
          /\ lastDestroy.steps[k] = "force_kill"

\* C22: destroying what is already destroyed is a no-op success: a
\* HypervInstance::stop on an instance whose partition an earlier stop has
\* taken returns Ok, terminates nothing and leaves every partition as it
\* is; and destroy_vm's stop of a handle whose process slot is empty returns
\* Ok without a signal, whatever the signals would have reported.
C22_SecondStopIsNoop ==
    [][ /\ \A s \in Slots :
             ( /\ handles[s].live
               /\ handles[s].process = "None"
               /\ lastDestroy'.fn = "stop"
               /\ lastDestroy'.slot = s
               /\ lastSpawn' = NoSpawn )
             => /\ lastDestroy'.result = "Ok"
                /\ lastDestroy'.steps = <<>>
                /\ procs' = procs
                /\ handles' = handles
        /\ \A running \in BOOLEAN, term \in SignalOutcomes, alive \in BOOLEAN,
              kill \in SignalOutcomes :
             stop_taken_process("None", running, term, alive, kill)
               = [result |-> "Ok", steps |-> <<>>, running |-> running]
      ]_vars

\* A second stop has been made on an instance that was stopped before.
C22_Witness ==
    /\ lastDestroy.fn = "stop"
    /\ lastDestroy.steps = <<>>
    /\ lastDestroy.result = "Ok"
    /\ handles[lastDestroy.slot].live
    /\ handles[lastDestroy.slot].process = "None"

----------------------------------------------------------------------------
(* Properties of the firewall manager (SpecFirewall, SpecVm) *)

CleanupFns == {"cleanup", "cleanup_async", "drop"}

\* C23: cleanup is idempotent: the cleanup a manager makes right after its
\* successful configure_isolation leaves neither the chain nor a rule of it
\* on the host, and a further cleanup of that manager (cleanup, cleanup_async
\* or the destructor) returns Ok and leaves the host firewall as it is.
C23_CleanupIdempotent ==
    [][ \A s \in ManagerSlots :
          ( /\ managers[s].live
            /\ lastFw'.slot = s
            /\ lastFw'.fn \in CleanupFns )
          => /\ lastFw'.after = "configure_isolation"
                  => /\ lastFw'.result = "Ok"
                     /\ chains'[managers[s].chain_name] = NoChain
                     /\ jumps'[managers[s].chain_name] = {}
             /\ lastFw'.after = "cleanup"
                  => /\ lastFw'.result = "Ok"
                     /\ chains' = chains
                     /\ jumps' = jumps
      ]_vars

\* The destructor has run after an explicit cleanup that followed a
\* successful configure_isolation.
C23_Witness ==
    /\ lastFw.fn = "drop"
    /\ lastFw.after = "cleanup"
    /\ Privileged

\* C24: verify_isolation answers true exactly when the manager's chain can
\* be listed and holds at least one drop rule; an existing chain without a
\* drop rule, whatever its name, is reported as not verified.
C24_VerifiedIffDropRule ==
    ( /\ lastFw.fn = "verify_isolation"
      /\ managers[lastFw.slot].live )
    => ( lastFw.result = "true"
         <=> /\ Privileged
             /\ chains[managers[lastFw.slot].chain_name].exists
             /\ "DROP" \in SeqRange(chains[managers[lastFw.slot].chain_name].rules) )

\* C25: chain names are unique per VM: two VMs alive at the same time under
\* different ids have different chains, and destroying one of them leaves
\* the other's chain and drop rule on the host.
C25_ChainPerVm ==
    [][ \A s, t \in Slots :
          ( /\ s # t
            /\ handles[s].live /\ handles[s].firewall_manager = "Some"
            /\ handles[t].live /\ handles[t].firewall_manager = "Some"
            /\ handles[s].id # handles[t].id )
          => /\ handles[s].chain # handles[t].chain
             /\ (~handles'[s].live /\ handles'[t].live)
                  => chains'[handles[t].chain] = chains[handles[t].chain]
      ]_vars

\* The characters of [A-Za-z0-9_].
AsciiWord == SeqRange(UpperCase) \cup SeqRange(LowerCase) \cup SeqRange(Digits) \cup {"_"}

\* C26: the chain name FirewallManager::new builds starts with "IRONCLAW_",
\* is made of characters of [A-Za-z0-9_] only, and has at most 28 characters.
C26_ChainNameValid ==
    \A s \in ManagerSlots :
        managers[s].live
        => /\ Len(managers[s].chain_name) >= Len(ChainPrefix)
           /\ SubSeq(managers[s].chain_name, 1, Len(ChainPrefix)) = ChainPrefix
           /\ SeqRange(managers[s].chain_name) \subseteq AsciiWord
           /\ Len(managers[s].chain_name) <= MaxChainNameLen

----------------------------------------------------------------------------
(* Properties of config validation and of the rootfs checks (SpecChecks) *)

\* C27: VmConfig validation accepts a config exactly when its network is
\* disabled, its vCPU count is not 0, its memory is at least 128 MiB and the
\* kernel and rootfs paths it needs are there; so an accepted config has
\* enable_networking = FALSE.
C27_ValidateRejectsUnsafe ==
    lastValidate.called
    => ( lastValidate.result = "Ok"
         <=> /\ ~lastValidate.config.enable_networking
             /\ lastValidate.config.vcpu_count # 0
             /\ lastValidate.config.memory_mb >= MinMemoryMb
             /\ PathExists(lastValidate.config.kernel_path)
             /\ PathExists(lastValidate.config.rootfs_path) )

\* C28: setup mounts the rootfs only when every enabled check has passed:
\* with enable_integrity, mount_readonly runs only after verify_integrity
\* reported verified = TRUE, and with enable_signature only after
\* verify_signature did; a missing hash tree, signature file or key file ends
\* setup before any mount.
C28_MountOnlyWhenVerified ==
    ( /\ lastSetup.called
      /\ "mount_readonly" \in SeqRange(lastSetup.steps) )
    => /\ lastSetup.config.enable_integrity
            => /\ lastSetup.integrity_verified
               /\ lastSetup.config.hash_tree_path = "present"
       /\ lastSetup.config.enable_signature
            => /\ lastSetup.signature_verified
               /\ lastSetup.config.signature_path = "present"
               /\ lastSetup.config.pub_key_path = "present"

\* Would an Ed25519 verification of these signature bytes succeed for this
\* image content under this public key.
SignatureVerifies(bytes, content, public_key_pem) ==
    /\ bytes.over = calculate_checksum(content)
    /\ bytes.by \in KeyIds
    /\ <<"public", bytes.by>> = public_key_pem

\* C29: verify_rootfs reports success only if the recomputed SHA-256 equals
\* the recorded checksum and the signature verifies against the given public
\* key.
C29_VerifyNeedsChecksumAndSignature ==
    ( lastVerify.called /\ lastVerify.result )
    => /\ calculate_checksum(lastVerify.content) = lastVerify.signature.checksum
       /\ SignatureVerifies(lastVerify.signature.signature, lastVerify.content,
                            lastVerify.public_key_pem)

----------------------------------------------------------------------------
(* Properties of the stdio transport (SpecMcp) *)

\* C30: a StdioTransport kills its child on drop: on every path, once the
\* transport has been dropped, its child has been sent a kill (by kill() or
\* by the drop) or has been waited for.
C30_DroppedMeansKilledOrReaped ==
    transport.dropped => (transport.kill_issued \/ transport.reaped)

----------------------------------------------------------------------------
(* Properties of cleanup after block_interface (SpecFirewall) and of the
   firewall cleanup at destroy (SpecVm) *)

\* C31: after block_interface has inserted the INPUT and FORWARD jump rules
\* for an interface, a cleanup of that manager removes every jump rule that
\* references the chain and deletes the chain: no rule and no chain of that
\* VM remains on the host.
C31_CleanupRemovesJumpRules ==
    [][ \A s \in ManagerSlots :
          ( /\ managers[s].live
            /\ jumps[managers[s].chain_name] # {}
            /\ lastFw'.slot = s
            /\ lastFw'.fn \in CleanupFns
            /\ lastFw' # lastFw )
          => /\ jumps'[managers[s].chain_name] = {}
             /\ chains'[managers[s].chain_name] = NoChain
      ]_vars

\* C32: whenever destroy_vm returns, with Ok or with Err, the destructor of
\* the handle's FirewallManager has run its cleanup: the chain of that VM no
\* longer exists.
C32_DestroyRunsFirewallCleanup ==
    [][ \A s \in Slots :
          ( /\ handles[s].live
            /\ handles[s].firewall_manager = "Some"
            /\ lastDestroy'.fn = "destroy_vm"
            /\ lastDestroy'.slot = s
            /\ ~handles'[s].live )
          => /\ "drop_firewall_manager" \in SeqRange(lastDestroy'.steps)
             /\ chains'[handles[s].chain] = NoChain
      ]_vars

\* destroy_vm has returned an error on a host where spawn had created the
\* chain, and no chain is left.
C32_Witness ==
    /\ lastDestroy.fn = "destroy_vm"
    /\ lastDestroy.result = "Err"
    /\ Privileged
    /\ \A n \in ChainNames : chains[n] = NoChain

----------------------------------------------------------------------------
(* Properties of the transport after EOF (SpecMcp) *)

\* C33: a recv that observes EOF leaves is_connected() false; from then on
\* the transport stays disconnected and every call that reaches it fails
\* without writing to or reading from the pipes; a recv that fails on a
\* line it cannot parse leaves the transport connected.
C33_EofDisconnectsForGood ==
    [][ /\ ( calls' # calls /\ last'.err = "eof" ) => ~is_connected(transport')
        /\ ~transport.connected
             => /\ ~transport'.connected
                /\ ~is_connected(transport')
                /\ calls' # calls
                     => /\ last'.result = "Err"
                        /\ ~last'.wrote
                        /\ ~last'.read
                        /\ transport'.inbox = transport.inbox
        /\ ( calls' # calls /\ last'.err = "deserialize" /\ transport.connected )
             => transport'.connected
      ]_vars

C33_Witness ==
    /\ ~transport.connected
    /\ transport.child = "Some"
    /\ ~transport.kill_issued
    /\ last.op \in {"list_tools", "call_tool"}
    /\ last.sends = 1
    /\ last.err = "not_connected"

----------------------------------------------------------------------------
(* Properties of RootfsConfig::setup on failure (SpecChecks) *)

\* C34: a setup that returns an error leaves no mount of its own behind:
\* when the overlay mount failed after mount_readonly succeeded, the rootfs
\* is unmounted again.
C34_FailedSetupLeavesNoMount ==
    ( lastSetup.called /\ lastSetup.result = "Err" )
        => ( ~lastSetup.mounted /\ ~lastSetup.overlay )

----------------------------------------------------------------------------
(* Properties of retry_with_backoff with max_attempts 0 and 1 (SpecRetry) *)

\* C40: with max_attempts = 0 the operation is never invoked and the call
\* returns the "All retry attempts failed" error; with max_attempts = 1 the
\* operation is invoked exactly once and the call never sleeps, whatever
\* the failure.
C40_ZeroAndOneAttempt ==
    /\ retry.config.max_attempts = 0
         => /\ retry.invocations = 0
            /\ retry.sleeps = 0
            /\ retry.pc # "panicked"
            /\ retry.pc = "returned"
                 => retry.result = "Err" /\ retry.error = AllRetryAttemptsFailed
    /\ retry.config.max_attempts = 1
         => /\ retry.sleeps = 0
            /\ retry.invocations <= 1
            /\ retry.pc # "panicked"
            /\ retry.pc = "returned" => retry.invocations = 1

C40_Witness ==
    /\ retry.config.max_attempts = 1
    /\ retry.pc = "returned"
    /\ retry.result = "Err"
    /\ retry.invocations = 1
    /\ should_retry_error(retry.config, retry.error)

----------------------------------------------------------------------------
(* Properties of destroy_vm_jailed on an empty process slot (SpecVm) *)

----------------------------------------------------------------------------
(* Properties of the client after a failed initialize (SpecMcp) *)

\* C35: an initialize that passed its checks and then failed leaves the
\* client in Initializing; a client in Initializing stays there, and every
\* initialize, list_tools and call_tool made on it returns an error without
\* sending or receiving anything.
C35_FailedInitializeIsFinal ==
    [][ /\ ( /\ calls' # calls
             /\ last'.op = "initialize"
             /\ last'.sends = 1
             /\ last'.result # "Ok" )
             => state' = "Initializing"
        /\ state = "Initializing"
             => /\ state' = "Initializing"
                /\ calls' # calls
                     => /\ last'.result = "Err"
                        /\ last'.sends = 0
                        /\ last'.recvs = 0
                        /\ ~last'.wrote
                        /\ ~last'.read
                        /\ sent' = sent
                        /\ transport' = transport
                        /\ next_id' = next_id
      ]_vars

C35_Witness ==
    /\ state = "Initializing"
    /\ last.pre = "Initializing"
    /\ last.op = "list_tools"
    /\ last.result = "Err"
    /\ Len(sent) = 1

----------------------------------------------------------------------------
(* Properties of what the client keeps: capabilities, rejected calls, the
   tool cache (SpecMcp) *)

\* C37: in every state between two calls of the client's public
\* operations, server_capabilities() is Some exactly when state() is Ready.
C37_CapabilitiesIffReady ==
    server_capabilities.present <=> state = "Ready"

C37_Witness ==
    /\ state = "Initializing"
    /\ last.op = "initialize"
    /\ last.err = "missing_protocol_version"
    /\ ~server_capabilities.present

\* C38: a call turned away by a precondition check (initialize in a state
\* other than Created or on a transport that is not connected; list_tools
\* or call_tool in a state other than Ready) returns an error, leaves the
\* state, the next id, the tool cache and the capabilities as they were and
\* sends nothing; after an initialize turned away in Created for a
\* disconnected transport, initialize may still be called.
C38_RejectedCallChangesNothing ==
    [][ ( /\ calls' # calls
          /\ \/ /\ last'.op = "initialize"
                /\ ~can_initialize(state) \/ ~is_connected(transport)
             \/ /\ last'.op \in {"list_tools", "call_tool"}
                /\ ensure_ready(state) # "Ok" )
        => /\ last'.result = "Err"
           /\ last'.sends = 0
           /\ state' = state
           /\ next_id' = next_id
           /\ tools' = tools
           /\ server_capabilities' = server_capabilities
           /\ sent' = sent
           /\ transport' = transport
           /\ ( last'.op = "initialize" /\ state = "Created" ) => can_initialize(state')
      ]_vars

C38_Witness ==
    /\ last.op = "initialize"
    /\ last.pre = "Created"
    /\ last.err = "transport_disconnected"
    /\ state = "Created"
    /\ ~is_connected(transport)

\* C39: the tool cache changes only in a list_tools that returns Ok, which
\* leaves in it exactly the list of the response it accepted; a list_tools
\* that fails, and every initialize and call_tool, leave the cache as it was.
C39_CacheFollowsListTools ==
    [][ /\ tools' # tools
             => ( calls' # calls /\ last'.op = "list_tools" /\ last'.result = "Ok" )
        /\ ( calls' # calls /\ last'.op = "list_tools" /\ last'.result = "Ok" )
             => /\ last'.resp.kind = "response"
                /\ ParseTools(last'.resp.result.tools).ok
                /\ tools' = ParseTools(last'.resp.result.tools).list
        /\ ( calls' # calls /\ ( last'.op # "list_tools" \/ last'.result # "Ok" ) )
             => tools' = tools
      ]_vars

C39_Witness ==
    /\ last.op = "list_tools"
    /\ last.result = "Err"
    /\ last.err = "parse_tools"
    /\ tools = <<"tool1">>

====
